---- MODULE Spec2Model ----
(***************************************************************************)
(* A model of the candidate sourcer (sdr_candidate_sourcer.py) and of the  *)
(* experience estimator (update_experience.py).                            *)
(*                                                                         *)
(* Text is modelled at two grains.  A profile URL is a sequence of         *)
(* one-character strings, so that str.lower() and str.rstrip('/') act on   *)
(* characters.  A headline, a snippet or a query is a sequence of          *)
(* lower-cased words (tokens); a regular expression of the source is the   *)
(* predicate on token sequences that it decides on such text.              *)
(***************************************************************************)
EXTENDS Integers, Sequences, FiniteSets, TLC

VARIABLES
    \* URL normalisation: a URL, its key, the key of its key
    url, norm1, norm2,
    \* deduplicate_candidates: the list given, the list returned, the position
    merged, unique_candidates, dedup_pc,
    \* the text functions: their arguments, the functions applied so far and
    \* what each returned
    arg_headline, arg_snippet, arg_query, now_year, done,
    ret_role, ret_senior, ret_sdr, ret_years,
    \* the title parse_search_result is called with, the record it returned
    arg_title, ret_candidate,
    \* main: the sheet handle, the sheet, the key map and the date column
    worksheet, sheet, existing_urls, date_added_col,
    \* main: the backup file as load_existing_candidates finds it and as the
    \* run leaves it
    csv_before, csv_file,
    \* main: the position in queries_to_run, the results of the query not yet
    \* looked at, the keys seen, the records kept, the counters, the position
    query_i, candidates, seen_urls, all_candidates, stats, pc,
    \* the sheet call that raised in the latest upload, the calls that raised
    last_fault, faults,
    \* the command line after the script name, the query list of the engine
    argv, base_queries,
    \* the search calls made so far, the seconds slept since the latest of
    \* them, the runs completed before this one
    attempts, last_delay, runs,
    \* the experience pass: the sheet as it was read, the column of the years,
    \* the cells to write, the cells written, the position in the fallback
    \* loop, the position in main
    all_data, yoe_col, updates, updated_count, update_i, update_pc

urlVars == <<url, norm1, norm2>>
dedupVars == <<merged, unique_candidates, dedup_pc>>
textVars == <<arg_headline, arg_snippet, arg_query, now_year, done,
              ret_role, ret_senior, ret_sdr, ret_years, arg_title,
              ret_candidate>>
runVars == <<worksheet, sheet, existing_urls, date_added_col, csv_before,
            csv_file, query_i, candidates, seen_urls, all_candidates, stats,
            pc, last_fault, faults, argv, base_queries, attempts, last_delay,
            runs>>
envVars == <<argv, base_queries, attempts, last_delay, runs>>
updateVars == <<all_data, yoe_col, updates, updated_count, update_i, update_pc>>
vars == <<urlVars, dedupVars, textVars, runVars, updateVars>>

(***************************************************************************)
(* Bounds of the model.                                                    *)
(***************************************************************************)
MaxUrlLen == 4      \* longest URL string explored, in characters
MaxCands == 3       \* longest candidate list given to deduplicate_candidates
MaxFrags == 3       \* most fragments a headline of the text specifications has

\* All sequences over S of length at most n.
SeqsUpTo(S, n) == UNION {[1..k -> S] : k \in 0..n}

\* A value no string takes: the result of a step that has not run yet.
NotYet == <<"not-yet">>

\* None where a string is expected, as an argument, a result or a field.
NoneValue == <<"<None>">>

(***************************************************************************)
(* Strings as character sequences.                                         *)
(***************************************************************************)
UrlChars == {"a", "A", "b", "/"}

\* str.lower() on one character of the alphabet.
LowerChar(c) == CASE c = "A" -> "a" [] c = "B" -> "b" [] OTHER -> c

\* str.lower()
Lower(s) == [i \in 1..Len(s) |-> LowerChar(s[i])]

\* str.rstrip('/'): drop every trailing slash.
RECURSIVE RStripSlash(_)
RStripSlash(s) ==
    IF s = <<>> THEN s
    ELSE IF s[Len(s)] = "/" THEN RStripSlash(SubSeq(s, 1, Len(s) - 1))
    ELSE s

\* A slip: only one trailing slash is removed (url[:-1] if url.endswith('/')).
NormalizeUrl_StripOne(s) ==
    LET l == Lower(s)
    IN  IF l # <<>> /\ l[Len(l)] = "/" THEN SubSeq(l, 1, Len(l) - 1) ELSE l

\* The deduplication key: candidate['linkedin_url'].lower().rstrip('/')
NormalizeUrl(s) == RStripSlash(Lower(s))

(***************************************************************************)
(* deduplicate_candidates                                                  *)
(***************************************************************************)
\* The loop of deduplicate_candidates from position i on, with the keys seen
\* and the records kept so far.
RECURSIVE DedupFrom(_, _, _, _)
DedupFrom(cands, i, seen, kept) ==
    IF i > Len(cands) THEN kept
    ELSE LET k == NormalizeUrl(cands[i].linkedin_url)
         IN  IF k \notin seen
             THEN DedupFrom(cands, i + 1, seen \cup {k}, Append(kept, cands[i]))
             ELSE DedupFrom(cands, i + 1, seen, kept)

\* A slip: the last record of a key replaces the one kept (dict-style overwrite).
RECURSIVE DedupLastWins(_, _, _, _)
DedupLastWins(cands, i, seen, kept) ==
    IF i > Len(cands) THEN kept
    ELSE LET k == NormalizeUrl(cands[i].linkedin_url)
         IN  IF k \notin seen
             THEN DedupLastWins(cands, i + 1, seen \cup {k}, Append(kept, cands[i]))
             ELSE DedupLastWins(cands, i + 1, seen,
                    [j \in 1..Len(kept) |->
                        IF NormalizeUrl(kept[j].linkedin_url) = k THEN cands[i] ELSE kept[j]])

deduplicate_candidates_last(cands) == DedupLastWins(cands, 1, {}, <<>>)

\* A slip: the URL as written is the key (no lower(), no rstrip('/')).
deduplicate_candidates_raw(cands) ==
    LET first == SelectSeq([j \in 1..Len(cands) |-> j],
                           LAMBDA j : \A l \in 1..(j - 1) :
                               cands[l].linkedin_url # cands[j].linkedin_url)
    IN  [k \in 1..Len(first) |-> cands[first[k]]]

deduplicate_candidates(cands) == DedupFrom(cands, 1, {}, <<>>)

\* candidate['linkedin_url'].lower() raises AttributeError on a URL that is
\* None, and deduplicate_candidates has no handler.
DedupRaises(cands) ==
    \E k \in 1..Len(cands) : cands[k].linkedin_url = NoneValue

(***************************************************************************)
(* Text as token sequences.  A text is the sequence of its words and       *)
(* punctuation marks, in order; "co-founder" is <<"co", "-", "founder">>   *)
(* and "3+ years" is <<"3", "+", "years">>.  White space is what separates *)
(* two words; a punctuation mark is written attached to the word before    *)
(* it (an apostrophe: to the word after it), as the patterns below expect  *)
(* of "3+", "2-3", "Provo, UT" and "'22".                                  *)
(***************************************************************************)
\* str.lower() on one word of the vocabulary.
LowerWord(w) ==
    CASE w = "AE" -> "ae"
      [] w = "SDR" -> "sdr"
      [] w = "Director" -> "director"
      [] w = "Founder" -> "founder"
      [] w = "Utah" -> "utah"
      [] w = "LinkedIn" -> "linkedin"
      [] OTHER -> w

\* str.lower() on a text.
LowerText(t) == [i \in 1..Len(t) |-> LowerWord(t[i])]

\* f"{headline} {snippet}"
JoinText(a, b) == a \o b

\* The phrase p stands in the text t at position i.
At(p, t, i) ==
    /\ i >= 1
    /\ i + Len(p) - 1 <= Len(t)
    /\ \A k \in 1..Len(p) : t[i + k - 1] = p[k]

\* A pattern is a set of alternative phrases (head), optionally followed,
\* anywhere later in the text, by one of a second set of phrases (tail):
\* head.*tail.  Word(s) and Phrases(S) are patterns without a tail.
Phrases(S) == [head |-> S, tail |-> {<<>>}]
Word(w) == Phrases({<<w>>})
Then(S, T) == [head |-> S, tail |-> T]

\* re.search(pattern, text) finds a match.
Search(pat, t) ==
    \E h \in pat.head : \E i \in 1..(Len(t) - Len(h) + 1) :
        /\ At(h, t, i)
        /\ \E tl \in pat.tail : \E j \in (i + Len(h))..(Len(t) - Len(tl) + 1) :
              At(tl, t, j)

\* x.?y for two words: "x y", "x-y" or "xy".
Loose2(x, y, xy) == Phrases({<<x, y>>, <<x, "-", y>>, <<xy>>})

\* The numbers the vocabulary can spell, and the value of a number word.
NumberValues == (0..30) \cup (2010..2030)
NumberWords == {ToString(n) : n \in NumberValues}
IsNumber(w) == w \in NumberWords
IntOf(w) == CHOOSE n \in NumberValues : ToString(n) = w

YearWords == {"year", "years"}

\* (2|3|4)\+?\s*years?  as phrases
YearsPhrases(S) ==
    {<<ToString(n), y>> : n \in S, y \in YearWords}
        \cup {<<ToString(n), "+", y>> : n \in S, y \in YearWords}

\* `needle in text` for a one-word needle: the needle is a substring of a
\* word of the text.  Besides the word itself, these words contain it.
ContainedIn ==
    {<<"lucid", "lucidchart">>, <<"mx", "mxnet">>, <<"saas", "saas/b2b">>}

HasSubstring(w, needle) == w = needle \/ <<needle, w>> \in ContainedIn

(***************************************************************************)
(* The rule tables of the classifier.                                      *)
(***************************************************************************)
EXCLUDED_TITLES == <<
    Word("vp"), Phrases({<<"vice", "president">>}), Word("director"),
    Phrases({<<"head", "of">>}), Word("chief"), Word("ceo"), Word("cro"),
    Word("coo"), Word("cfo"), Word("cmo"), Word("cto"), Word("svp"),
    Word("evp"), Phrases({<<"senior", "vice", "president">>}),
    Phrases({<<"executive", "vice", "president">>}),
    Phrases({<<"general", "manager">>}), Word("gm"), Word("president"),
    Word("partner"), Word("principal"),
    Phrases({<<"managing", "director">>}), Word("enterprise") >>

ALLOWED_TITLES == <<
    Word("founder"), Word("owner"),
    Phrases({<<"co", "-", "founder">>}), Word("cofounder") >>

EXISTING_SDR_TITLES == <<
    Word("sdr"), Word("bdr"),
    Phrases({<<"sales", "development", "representative">>}),
    Phrases({<<"business", "development", "representative">>}),
    Phrases({<<"sales", "development">>}),
    Phrases({<<"business", "development", "rep">>}),
    Phrases({<<"lead", "development", "representative">>}), Word("ldr"),
    Phrases({<<"market", "development", "representative">>}), Word("mdr") >>

UTAH_LOCATION_KEYWORDS == <<
    Word("utah"), Phrases({<<"salt", "lake", "city">>}), Word("slc"),
    Word("provo"), Word("ogden"), Word("orem"), Word("lehi"), Word("sandy"),
    Word("draper"),
    Phrases({<<"st", "george">>, <<"st", ".", "george">>, <<"stgeorge">>}),
    Word("logan"), Phrases({<<"park", "city">>}),
    Phrases({<<"silicon", "slopes">>}),
    Phrases({<<",", "ut">>}), Phrases({<<"ut", ",">>}),
    Word("bountiful"), Word("murray"), Word("layton"), Word("clearfield"),
    Phrases({<<"american", "fork">>}), Phrases({<<"pleasant", "grove">>}),
    Phrases({<<"spanish", "fork">>}), Word("springville"), Word("heriman"),
    Word("herriman"), Word("riverton"), Word("tooele") >>

UTAH_COLLEGES == <<
    Word("byu"), Phrases({<<"brigham", "young">>}),
    Phrases({<<"utah", "state">>}),
    Phrases({<<"university", "of", "utah">>}),
    Phrases({<<"u", "of", "u">>}), Phrases({<<"weber", "state">>}),
    Word("uvu"), Phrases({<<"utah", "valley">>}),
    Phrases({<<"southern", "utah">>}), Phrases({<<"dixie", "state">>}),
    Phrases({<<"utah", "tech">>}),
    Then({<<"westminster">>}, {<<"utah">>}),
    Phrases({<<"snow", "college">>}), Word("slcc"),
    Phrases({<<"salt", "lake", "community">>}),
    Phrases({<<"ensign", "college">>}),
    Phrases({<<"utah", "state", "university">>}) >>

\* \b\$\d+[mk]\b asks for a word character right before the dollar sign:
\* an amount written after a space ("closed $1m") never matches, and the
\* texts of the model write amounts so.
AE_INDICATORS == <<
    Phrases({<<"account", "executive">>}), Word("ae"), Word("closing"),
    Loose2("full", "cycle", "fullcycle"),
    Loose2("mid", "market", "midmarket"),
    Word("enterprise"), Word("smb"), Word("quota"),
    Phrases({}),
    Word("closed"),
    Then({<<"saas">>}, YearsPhrases({2, 3, 4})),
    Then(YearsPhrases({2, 3, 4}), {<<"saas">>}),
    Phrases({<<"senior", "account">>, <<"senior", "sales">>,
             <<"senioraccount">>, <<"seniorsales">>}) >>

SDR_INDICATORS == <<
    Word("sdr"), Word("bdr"), Phrases({<<"sales", "development">>}),
    Phrases({<<"business", "development", "representative">>}),
    Word("outbound"), Phrases({<<"cold", "calling">>}),
    Phrases({<<"lead", "generation">>}), Word("prospecting"),
    Phrases({<<"student", "athlete">>}), Word("ncaa"),
    Phrases({<<"door", "to", "door">>, <<"door", "-", "to", "-", "door">>,
             <<"doortodoor">>}),
    Word("d2d"), Phrases({<<"recent", "graduate">>}),
    Loose2("entry", "level", "entrylevel"),
    Word("intern"), Word("restaurant"), Word("bartender"), Word("server") >>

UTAH_TECH_COMPANIES == <<
    "qualtrics", "pluralsight", "podium", "lucid", "domo", "entrata",
    "weave", "divvy", "mx", "instructure", "vivint", "healthequity",
    "recursion", "carta", "workfront", "bamboohr", "workstream" >>

\* for pattern in table: if re.search(pattern, text): ...
AnyMatch(table, t) == \E k \in 1..Len(table) : Search(table[k], t)

\* The number of patterns of the table that match.
CountMatches(table, t) == Cardinality({k \in 1..Len(table) : Search(table[k], t)})

\* for company in UTAH_TECH_COMPANIES: if company in text
MentionsCompany(t) ==
    \E k \in 1..Len(UTAH_TECH_COMPANIES) : \E i \in 1..Len(t) :
        HasSubstring(t[i], UTAH_TECH_COMPANIES[k])

(***************************************************************************)
(* is_too_senior, is_existing_sdr, is_utah_connected                       *)
(***************************************************************************)
\* A slip: the exclusion list is consulted before the allow-list.
is_too_senior_exclusion_first(headline) ==
    IF headline = <<>> THEN FALSE
    ELSE LET headline_lower == LowerText(headline)
         IN  IF AnyMatch(EXCLUDED_TITLES, headline_lower) THEN TRUE
             ELSE FALSE

is_too_senior(headline) ==
    IF headline = <<>> THEN FALSE
    ELSE LET headline_lower == LowerText(headline)
         IN  IF AnyMatch(ALLOWED_TITLES, headline_lower) THEN FALSE
             ELSE IF AnyMatch(EXCLUDED_TITLES, headline_lower) THEN TRUE
             ELSE FALSE

is_existing_sdr(headline, snippet) ==
    IF headline = <<>> THEN FALSE
    ELSE LET text == LowerText(JoinText(headline, snippet))
         IN  IF AnyMatch(ALLOWED_TITLES, text) THEN FALSE
             ELSE IF AnyMatch(EXISTING_SDR_TITLES, text) THEN TRUE
             ELSE FALSE

is_utah_connected(headline, snippet) ==
    LET text == LowerText(JoinText(headline, snippet))
    IN  \/ AnyMatch(UTAH_LOCATION_KEYWORDS, text)
        \/ AnyMatch(UTAH_COLLEGES, text)
        \/ MentionsCompany(text)

(***************************************************************************)
(* determine_role_fit                                                      *)
(***************************************************************************)
\* any(term in source_lower for term in ['account executive', 'ae ', 'saas']):
\* substring tests.  'ae ' asks for a word ending in "ae" with a space
\* after it, so not for the last word of the query.
EndsWithAe(w) == w \in {"ae", "rae"}

QueryNamesAE(source_query) ==
    LET source_lower == LowerText(source_query)
    IN  \/ \E i \in 1..(Len(source_lower) - 1) :
              source_lower[i] = "account" /\ source_lower[i + 1] = "executive"
        \/ \E i \in 1..(Len(source_lower) - 1) : EndsWithAe(source_lower[i])
        \/ \E i \in 1..Len(source_lower) : HasSubstring(source_lower[i], "saas")

\* re.search(r'(\d+)\+?\s*years?', headline_lower): the positions where a
\* number stands before "year(s)", a plus sign allowed in between.
YearsAt(t, i) ==
    /\ i <= Len(t)
    /\ IsNumber(t[i])
    /\ \/ i + 1 <= Len(t) /\ t[i + 1] \in YearWords
       \/ i + 2 <= Len(t) /\ t[i + 1] = "+" /\ t[i + 2] \in YearWords

\* years_match.group(1) of the leftmost match, or -1 when there is none.
YearsMentioned(t) ==
    LET P == {i \in 1..Len(t) : YearsAt(t, i)}
    IN  IF P = {} THEN -1
        ELSE IntOf(t[CHOOSE i \in P : \A j \in P : i <= j])

ae_score(headline) ==
    LET headline_lower == LowerText(headline)
        years == YearsMentioned(headline_lower)
    IN  CountMatches(AE_INDICATORS, headline_lower)
        + (IF MentionsCompany(headline_lower) THEN 2 ELSE 0)
        + (IF years >= 2 THEN 1 ELSE 0)
        + (IF years >= 4 THEN 1 ELSE 0)

sdr_score(headline) == CountMatches(SDR_INDICATORS, LowerText(headline))

\* A slip: without the branch for a positive AE score, an AE score of 1
\* against an SDR score of 0 falls to the default.
RoleFromScores_NeedsTwo(ae, sdr) ==
    IF ae > sdr /\ ae >= 2 THEN "AE"
    ELSE IF sdr > ae THEN "SDR"
    ELSE IF ae > 0 /\ sdr > 0 THEN "SDR/AE"
    ELSE "SDR"

\* A slip: a tie of positive scores goes to SDR (>= for >).
RoleFromScores_TieToSDR(ae, sdr) ==
    IF ae > sdr /\ ae >= 2 THEN "AE"
    ELSE IF sdr >= ae THEN "SDR"
    ELSE IF ae > 0 /\ sdr > 0 THEN "SDR/AE"
    ELSE IF ae > 0 THEN "AE"
    ELSE "SDR"

\* The decision on the two scores.
RoleFromScores(ae, sdr) ==
    IF ae > sdr /\ ae >= 2 THEN "AE"
    ELSE IF sdr > ae THEN "SDR"
    ELSE IF ae > 0 /\ sdr > 0 THEN "SDR/AE"
    ELSE IF ae > 0 THEN "AE"
    ELSE "SDR"

\* A slip: an empty headline whose query names no AE term gets no label.
determine_role_fit_no_default(headline, source_query) ==
    IF headline = <<>>
    THEN IF source_query # <<>> /\ QueryNamesAE(source_query) THEN "AE" ELSE ""
    ELSE RoleFromScores(ae_score(headline), sdr_score(headline))

determine_role_fit(headline, source_query) ==
    IF headline = <<>>
    THEN IF source_query # <<>> /\ QueryNamesAE(source_query) THEN "AE" ELSE "SDR"
    ELSE RoleFromScores(ae_score(headline), sdr_score(headline))

(***************************************************************************)
(* estimate_years_of_experience (update_experience.py)                     *)
(*                                                                         *)
(* Each rule is given as the result it produces, NoMatch when it does not  *)
(* apply.  A pattern finds its leftmost match, as re.search does.          *)
(***************************************************************************)
NoMatch == "no-match"

\* The least element of a non-empty set of positions.
Leftmost(P) == CHOOSE i \in P : \A j \in P : i <= j

\* Words that start with one of the given prefixes: a pattern that ends in
\* (?:experience|exp) without \b also accepts "expert".
StartsWithAny(w, prefixes) ==
    \/ w \in prefixes
    \/ w = "years" /\ "year" \in prefixes
    \/ w = "expert" /\ "exp" \in prefixes
    \/ w = "salesforce" /\ "sales" \in prefixes
    \/ w = "graduated" /\ prefixes \cap {"grad", "graduate"} # {}
    \/ w = "graduate" /\ "grad" \in prefixes

\* Words that contain one of the given words.
ContainsAny(w, needles) ==
    \/ w \in needles
    \/ w = "leader" /\ "lead" \in needles

\* The number word at position i counts d digits.
IsNumberAt(t, i) == i >= 1 /\ i <= Len(t) /\ IsNumber(t[i])
HasDigits(w, d) ==
    /\ IsNumber(w)
    /\ IF d = 4 THEN IntOf(w) >= 1000 /\ IntOf(w) <= 9999
       ELSE IF d = 2 THEN IntOf(w) >= 10 /\ IntOf(w) <= 99
       ELSE FALSE

WordAt(t, i, S) == i >= 1 /\ i <= Len(t) /\ t[i] \in S
PrefixAt(t, i, S) == i >= 1 /\ i <= Len(t) /\ StartsWithAny(t[i], S)

\* Rule 1, pattern by pattern.  A match of patterns 1, 2, 4 and 5 starts at
\* a number N, has an optional "+" (patterns 1, 2) and one captured group;
\* pattern 3 captures two numbers.
\* plus = 1 when the "+" stands after the number, else 0.
ExplicitAt(k, t, i, plus) ==
    LET y == i + plus + 1 IN
    /\ IsNumberAt(t, i)
    /\ plus = 1 => WordAt(t, i + 1, {"+"})
    /\ CASE k = 1 ->
              /\ WordAt(t, y, YearWords)
              /\ \/ PrefixAt(t, y + 1, {"experience", "exp"})
                 \/ WordAt(t, y + 1, {"of"}) /\ PrefixAt(t, y + 2, {"experience", "exp"})
         [] k = 2 ->
              /\ WordAt(t, y, YearWords)
              /\ WordAt(t, y + 1, {"in"})
              /\ PrefixAt(t, y + 2, {"sales", "saas", "tech", "b2b"})
         [] k = 3 ->
              /\ plus = 0
              /\ WordAt(t, i + 1, {"-"})
              /\ IsNumberAt(t, i + 2)
              /\ PrefixAt(t, i + 3, {"year"})
         [] k = 4 ->
              /\ plus = 1
              /\ PrefixAt(t, y, {"year"})
         [] k = 5 ->
              /\ plus = 0
              /\ WordAt(t, y, YearWords)
              /\ PrefixAt(t, y + 1, {"sales", "saas", "b2b", "account"})

ExplicitMatches(k, t) ==
    \E i \in 1..Len(t) : \E plus \in {0, 1} : ExplicitAt(k, t, i, plus)

\* What the code returns for the leftmost match of pattern k.
ExplicitResult(k, t) ==
    LET i == Leftmost({j \in 1..Len(t) : \E plus \in {0, 1} : ExplicitAt(k, t, j, plus)})
    IN  IF k = 3 THEN t[i] \o "-" \o t[i + 2]
        ELSE IF ExplicitAt(k, t, i, 1) THEN t[i] \o "+"
        ELSE t[i]

Rule1(t) ==
    LET K == {k \in 1..5 : ExplicitMatches(k, t)}
    IN  IF K = {} THEN NoMatch ELSE ExplicitResult(Leftmost(K), t)

\* Rule 2: the year captured by graduation pattern k at position i, where
\* the match starts.
GradYearAt(k, t, i) ==
    CASE k = 1 ->
           IF WordAt(t, i, {"class"}) /\ WordAt(t, i + 1, {"of"})
           THEN IF i + 2 <= Len(t) /\ HasDigits(t[i + 2], 4) THEN IntOf(t[i + 2])
                ELSE IF WordAt(t, i + 2, {"'"}) /\ i + 3 <= Len(t) /\ HasDigits(t[i + 3], 4)
                     THEN IntOf(t[i + 3])
                ELSE -1
           ELSE -1
      [] k = 2 ->
           IF /\ i <= Len(t)
              /\ t[i] \in {"graduate", "graduated", "undergraduate"}
           THEN IF i + 1 <= Len(t) /\ HasDigits(t[i + 1], 4) THEN IntOf(t[i + 1])
                ELSE IF WordAt(t, i + 1, {":", "-"}) /\ i + 2 <= Len(t) /\ HasDigits(t[i + 2], 4)
                     THEN IntOf(t[i + 2])
                ELSE -1
           ELSE -1
      [] k = 3 ->
           IF WordAt(t, i, {"'"}) /\ i + 1 <= Len(t) /\ HasDigits(t[i + 1], 2)
           THEN 2000 + IntOf(t[i + 1])
           ELSE -1
      [] k = 4 ->
           IF /\ IsNumberAt(t, i)
              /\ IntOf(t[i]) >= 2020 /\ IntOf(t[i]) <= 2025
              /\ PrefixAt(t, i + 1, {"graduate", "grad", "alumni"})
           THEN IntOf(t[i])
           ELSE -1

\* The year of the leftmost match of graduation pattern k, -1 without match.
GradYear(k, t) ==
    LET P == {i \in 1..Len(t) : GradYearAt(k, t, i) # -1}
    IN  IF P = {} THEN -1 ELSE GradYearAt(k, t, Leftmost(P))

\* The lowest graduation year the rule accepts.
MinGradYear == 2015

\* A slip: a year before the window is accepted.
GradAccepted_no_floor(k, t, current_year) ==
    GradYear(k, t) # -1 /\ GradYear(k, t) <= current_year

GradAccepted(k, t, current_year) ==
    GradYear(k, t) # -1 /\ MinGradYear <= GradYear(k, t) /\ GradYear(k, t) <= current_year

GradResult(year, current_year) ==
    LET years_exp == current_year - year
    IN  IF years_exp <= 0 THEN "<1" ELSE ToString(years_exp)

Rule2(t, current_year) ==
    LET K == {k \in 1..4 : GradAccepted(k, t, current_year)}
    IN  IF K = {} THEN NoMatch ELSE GradResult(GradYear(Leftmost(K), t), current_year)

\* Rule 3.  \bX\b(?!.*Y): X stands somewhere with no Y anywhere after it.
WithoutLater(S, t, needles) ==
    \E p \in S : \E i \in 1..(Len(t) - Len(p) + 1) :
        /\ At(p, t, i)
        /\ \A j \in (i + Len(p))..Len(t) : ~ContainsAny(t[j], needles)

\* \brecent\s+grad
RecentGrad(t) ==
    \E i \in 1..(Len(t) - 1) : t[i] = "recent" /\ StartsWithAny(t[i + 1], {"grad"})

\* The title table, in the order of the dictionary: <<matches, band>>.
title_experience(t) == <<
    <<Search(Phrases({<<"intern">>, <<"internship">>}), t), "<1">>,
    <<Search(Word("student"), t), "<1">>,
    <<Search(Loose2("entry", "level", "entrylevel"), t), "<1">>,
    <<RecentGrad(t), "<1">>,
    <<WithoutLater({<<"sdr">>, <<"bdr">>}, t, {"manager", "lead", "senior"}), "1-2">>,
    <<Search(Word("junior"), t), "1-2">>,
    <<WithoutLater({<<"associate">>}, t, {"director"}), "1-2">>,
    <<WithoutLater({<<"account", "executive">>}, t, {"senior"}), "2-4">>,
    <<WithoutLater({<<"ae">>}, t, {"senior"}), "2-4">>,
    <<Search(Loose2("mid", "market", "midmarket"), t), "2-4">>,
    <<Search(Phrases({<<"senior", "account", "executive">>, <<"senior", "ae">>,
                      <<"senior", "sdr">>}), t), "4+">>,
    <<Search(Phrases({<<"smb", "account", "executive">>,
                      <<"enterprise", "account", "executive">>}), t), "3-5">>,
    <<Search(Phrases({<<"team", "lead">>}), t), "3+">>,
    <<Search(Phrases({<<"sales", "manager">>}), t), "4+">> >>

Rule3(t) ==
    LET tab == title_experience(t)
        K == {k \in 1..Len(tab) : tab[k][1]}
    IN  IF K = {} THEN NoMatch ELSE tab[Leftmost(K)][2]

\* Rule 4: (\d+)\s*(?:yr|year)s?\s+at\b, then since\s+(\d{4})\b
TenureAt(t, i) ==
    IsNumberAt(t, i) /\ WordAt(t, i + 1, {"yr", "yrs", "year", "years"}) /\ WordAt(t, i + 2, {"at"})

SinceAt(t, i) ==
    WordAt(t, i, {"since"}) /\ i + 1 <= Len(t) /\ HasDigits(t[i + 1], 4)

Rule4(t, current_year) ==
    LET T == {i \in 1..Len(t) : TenureAt(t, i)}
        S == {i \in 1..Len(t) : SinceAt(t, i)}
    IN  IF T # {} THEN t[Leftmost(T)]
        ELSE IF S # {} THEN ToString(current_year - IntOf(t[Leftmost(S) + 1]))
        ELSE NoMatch

\* Rule 5: a sales role with an adjective of experience.
Rule5(t) ==
    IF /\ Search(Phrases({<<"sales">>, <<"account">>, <<"business", "development">>}), t)
       /\ Search(Phrases({<<"proven">>, <<"experienced">>, <<"seasoned">>,
                          <<"successful">>}), t)
    THEN "3+" ELSE NoMatch

\* The first rule of the sequence that matches decides; "" when none does.
FirstRule(results) ==
    LET K == {k \in 1..Len(results) : results[k] # NoMatch}
    IN  IF K = {} THEN "" ELSE results[Leftmost(K)]

\* A slip: the graduation-year rule is tried before the explicit years.
estimate_years_of_experience_grad_first(headline, current_year) ==
    IF headline = <<>> THEN ""
    ELSE LET t == LowerText(headline)
         IN  FirstRule(<<Rule2(t, current_year), Rule1(t), Rule3(t),
                         Rule4(t, current_year), Rule5(t)>>)

estimate_years_of_experience(headline, current_year) ==
    IF headline = <<>> THEN ""
    ELSE LET t == LowerText(headline)
         IN  FirstRule(<<Rule1(t), Rule2(t, current_year), Rule3(t),
                         Rule4(t, current_year), Rule5(t)>>)

(***************************************************************************)
(* parse_search_result and extract_name_from_url                           *)
(*                                                                         *)
(* A title is a token sequence, "Jane Doe - Account Executive | LinkedIn"  *)
(* being <<"jane", "doe", "-", "account", "executive", "|", "linkedin">>.  *)
(* A profile URL is the character sequence of what follows                 *)
(* "linkedin.com/in/", the prefix every URL a search function lets through *)
(* contains (lines 416, 455, 493).                                         *)
(***************************************************************************)
\* re.sub(r'\s*[|\-]\s*LinkedIn.*$', '', title, flags=re.IGNORECASE)
StripBrand(title) ==
    LET P == {i \in 1..(Len(title) - 1) :
                 title[i] \in {"|", "-"} /\ LowerWord(title[i + 1]) = "linkedin"}
    IN  IF P = {} THEN title ELSE SubSeq(title, 1, Leftmost(P) - 1)

\* re.split(r'\s*[-]\s*', clean_title, maxsplit=1)
SplitDash(t) ==
    LET P == {i \in 1..Len(t) : t[i] = "-"}
    IN  IF P = {} THEN <<t>>
        ELSE <<SubSeq(t, 1, Leftmost(P) - 1), SubSeq(t, Leftmost(P) + 1, Len(t))>>

\* The part of s before the first character of the set, all of s without one.
Before(s, stops) ==
    LET P == {i \in 1..Len(s) : s[i] \in stops}
    IN  IF P = {} THEN s ELSE SubSeq(s, 1, Leftmost(P) - 1)

\* unquote(url).split('?')[0]; the alphabet has no escape to unquote.
CleanUrl(u) == Before(u, {"?"})

HexChars == {"a", "b", "c", "d", "e", "f", "0", "1", "2", "3", "4", "5", "6", "7", "8", "9"}
DigitChars == {"0", "1", "2", "3", "4", "5", "6", "7", "8", "9"}

\* re.sub(r'-[chars]{minlen,}$', '', s)
StripSuffix(s, chars, minlen) ==
    LET P == {i \in 1..Len(s) :
                 /\ s[i] = "-"
                 /\ Len(s) - i >= minlen
                 /\ \A j \in (i + 1)..Len(s) : s[j] \in chars}
    IN  IF P = {} THEN s ELSE SubSeq(s, 1, Leftmost(P) - 1)

UpperChar(c) == CASE c = "a" -> "A" [] c = "b" -> "B" [] OTHER -> c

\* name_part.replace('-', ' ').title()
TitleCase(s) ==
    LET spaced == [i \in 1..Len(s) |-> IF s[i] = "-" THEN " " ELSE s[i]]
    IN  [i \in 1..Len(s) |->
            IF i = 1 \/ spaced[i - 1] \in {" ", "/"} \cup DigitChars
            THEN UpperChar(spaced[i]) ELSE LowerChar(spaced[i])]

\* A URL that is the empty string: it has no "linkedin.com/in/".
EmptyUrl == <<"<empty>">>

\* The name read off the URL, None without one.  re.search raises TypeError
\* on a URL that is None, which the except clause turns into None; on ''
\* and on an empty slug it finds no match.
extract_name_from_url(u) ==
    IF u \in {NoneValue, EmptyUrl} THEN NoneValue
    ELSE LET slug == Before(u, {"/", "?"})
         IN  IF slug = <<>> THEN NoneValue
             ELSE TitleCase(StripSuffix(StripSuffix(slug, HexChars, 5),
                                        DigitChars, 1))

\* value or ''
OrEmpty(value) == IF value = NoneValue THEN <<>> ELSE value

\* A slip: the name read off the URL is taken as it is, None included.
parse_search_result_no_default(u, title, snippet, source_query) ==
    LET has_title == title \notin {<<>>, NoneValue}
        parts == SplitDash(StripBrand(title))
        name0 == IF has_title THEN parts[1] ELSE <<>>
        headline0 == IF has_title /\ Len(parts) > 1 THEN parts[2] ELSE <<>>
        full_name == IF name0 = <<>> THEN extract_name_from_url(u) ELSE name0
        headline == IF headline0 = <<>> /\ snippet \notin {<<>>, NoneValue}
                    THEN snippet ELSE headline0
    IN  [full_name |-> full_name,
         linkedin_url |-> u,
         headline |-> headline,
         email |-> "",
         phone |-> "",
         role_type |-> determine_role_fit(headline, source_query),
         source_query |-> source_query,
         snippet |-> OrEmpty(snippet)]

\* The snippet as a headline: texts of the model are shorter than the 200
\* characters after which the code truncates.
\* `if title:` and `and snippet` are false on None and on ''.
parse_search_result(u, title, snippet, source_query) ==
    LET has_title == title \notin {<<>>, NoneValue}
        parts == SplitDash(StripBrand(title))
        name0 == IF has_title THEN parts[1] ELSE <<>>
        headline0 == IF has_title /\ Len(parts) > 1 THEN parts[2] ELSE <<>>
        full_name == IF name0 = <<>> THEN OrEmpty(extract_name_from_url(u))
                     ELSE name0
        headline == IF headline0 = <<>> /\ snippet \notin {<<>>, NoneValue}
                    THEN snippet ELSE headline0
    IN  [full_name |-> full_name,
         linkedin_url |-> u,
         headline |-> headline,
         email |-> "",
         phone |-> "",
         role_type |-> determine_role_fit(headline, source_query),
         source_query |-> source_query,
         snippet |-> OrEmpty(snippet)]

\* The loop of a search function over the hits the provider returned: every
\* hit is a profile URL, cleaned and parsed.  The URL of a record holds
\* "linkedin.com/in/", so the test for a name or a URL keeps every record.
ParseHits(query, hits) ==
    [k \in 1..Len(hits) |->
        parse_search_result(CleanUrl(hits[k].url), hits[k].title,
                            hits[k].snippet, query)]

\* A slip: no except clause, the error leaves the search function.
SearchError_Raise(collected) == [raised |-> TRUE, candidates |-> collected]

\* The except clause of a search function: the error is printed and the
\* records collected before it are returned.
SearchError(collected) == [raised |-> FALSE, candidates |-> collected]

\* search_with_serpapi (search_with_google and search_with_duckduckgo have
\* the same shape).  `failure` is "provider" when the call to the provider
\* raises, which is before any hit is looked at; "result" when the last hit
\* of the list is one the loop cannot handle (a link that is None); "none"
\* otherwise.
search_with_serpapi(query, hits, failure) ==
    IF failure = "provider" THEN SearchError(<<>>)
    ELSE IF failure = "result"
         THEN SearchError(ParseHits(query, SubSeq(hits, 1, Len(hits) - 1)))
    ELSE [raised |-> FALSE, candidates |-> ParseHits(query, hits)]

\* search_candidates with a search engine available.
search_candidates(query, hits, failure) == search_with_serpapi(query, hits, failure)

(***************************************************************************)
(* The local backup (candidates.csv)                                       *)
(***************************************************************************)
\* A row of the file, by column.  Text columns hold sequences, the others
\* strings; the empty cell is <<>> or "".
CsvRow(name, u, headline, role, yoe, date) ==
    [FullName |-> name, LinkedInURL |-> u, Headline |-> headline,
     YearsOfExperience |-> yoe, RoleFit |-> role, Notes |-> "", Email |-> "",
     Phone |-> "", DateAdded |-> date, Status |-> "", AIDraft |-> ""]

\* What csv.DictReader gives for a column a short row does not reach: None,
\* NoneValue in a text cell and this string in a string cell.  row.get(column, '') returns it, the key being
\* there.
NoneStr == "<None>"

\* A row that ends after its first cells.
ShortRow(name, u, headline) ==
    [FullName |-> name, LinkedInURL |-> u, Headline |-> headline,
     YearsOfExperience |-> NoneStr, RoleFit |-> NoneStr, Notes |-> NoneStr,
     Email |-> NoneStr, Phone |-> NoneStr, DateAdded |-> NoneStr,
     Status |-> NoneStr, AIDraft |-> NoneStr]

\* A reading of the file that finds no record.
load_existing_candidates_none(file) == <<>>

\* The file has no 'Source Query' column: row.get('Source Query', '') is ''.
\* determine_role_fit formats a headline that is None into its text.
load_existing_candidates(file) ==
    IF ~file.exists THEN <<>>
    ELSE [k \in 1..Len(file.rows) |->
            LET row == file.rows[k]
                headline == row.Headline
                role_type == IF row.RoleFit \in {"", NoneStr}
                             THEN determine_role_fit(headline, <<>>)
                             ELSE row.RoleFit
            IN  [full_name |-> row.FullName,
                 linkedin_url |-> row.LinkedInURL,
                 headline |-> headline,
                 email |-> row.Email,
                 phone |-> row.Phone,
                 role_type |-> role_type,
                 source_query |-> <<>>]]

\* The csv writer writes None as the empty cell.
CsvText(v) == IF v = NoneValue THEN <<>> ELSE v
CsvStr(v) == IF v = NoneStr THEN "" ELSE v

\* The file save_to_csv writes: the columns not named get the writer's ''.
save_to_csv(cands) ==
    [exists |-> TRUE,
     rows |-> [k \in 1..Len(cands) |->
                 [FullName |-> CsvText(cands[k].full_name),
                  LinkedInURL |-> CsvText(cands[k].linkedin_url),
                  RoleFit |-> IF "role_type" \in DOMAIN cands[k]
                              THEN cands[k].role_type ELSE "SDR",
                  Headline |-> CsvText(cands[k].headline),
                  Email |-> CsvStr(cands[k].email),
                  Phone |-> CsvStr(cands[k].phone),
                  YearsOfExperience |-> "", Notes |-> "", DateAdded |-> "",
                  Status |-> "", AIDraft |-> ""]]]

(***************************************************************************)
(* The spreadsheet: a header row and the rows below it; the sheet's row r  *)
(* (r >= 2) is rows[r - 1].  A row is the sequence of its eleven cells.    *)
(***************************************************************************)
HEADERS == <<"Full Name", "LinkedIn URL", "Headline", "Years of Experience",
             "Role Fit", "Notes", "Email", "Phone", "Date Added", "Status",
             "AI Draft">>

\* get_column_index returns None; None is falsy, as its `or 5` relies on.
None == 0

\* header.strip().lower()
NormHeader(h) ==
    CASE h \in {"Date Added", "date added", " Date Added "} -> "date added"
      [] h \in {"Role Fit", "role fit", "ROLE FIT"} -> "role fit"
      [] OTHER -> h

get_column_index(sh, column_name) ==
    LET P == {idx \in 1..Len(sh.header) :
                 NormHeader(sh.header[idx]) = NormHeader(column_name)}
    IN  IF P = {} THEN None ELSE Leftmost(P)

\* worksheet.update_cell(row, col, value)
update_cell(sh, row_num, col, value) ==
    [sh EXCEPT !.rows[row_num - 1][col] = value]

\* worksheet.append_row(row)
append_row(sh, row) == [sh EXCEPT !.rows = Append(@, row)]

\* The dictionary built from column B: a key maps to the last row holding
\* it; blank cells are skipped.  {} when reading the column fails.
get_existing_urls_from_sheet(sh, fails) ==
    IF fails THEN <<>>
    ELSE LET filled == {k \in 1..Len(sh.rows) : sh.rows[k][2] # <<>>}
             keys == {NormalizeUrl(sh.rows[k][2]) : k \in filled}
         IN  [key \in keys |->
                 1 + CHOOSE k \in filled :
                        /\ NormalizeUrl(sh.rows[k][2]) = key
                        /\ \A l \in filled :
                              NormalizeUrl(sh.rows[l][2]) = key => l <= k]

\* datetime.now().strftime('%Y-%m-%d'): the day of the run.
Today == "today"

Put(urls, key, row_num) ==
    [k \in DOMAIN urls \cup {key} |-> IF k = key THEN row_num ELSE urls[k]]

\* A slip: no except clause, the error leaves the function.
SheetError_Raise(sh, urls) ==
    [result |-> "none", raised |-> TRUE, sheet |-> sh, existing_urls |-> urls]

\* The except clause of upload_candidate_realtime: logged, 'skipped'.
SheetError(sh, urls) ==
    [result |-> "skipped", raised |-> FALSE, sheet |-> sh, existing_urls |-> urls]

\* A slip: the map is not consulted, every record is appended.
upload_candidate_realtime_append(ws, sh, candidate, urls, date_col_arg, fault) ==
    IF ~ws
    THEN [result |-> "skipped", raised |-> FALSE, sheet |-> sh, existing_urls |-> urls]
    ELSE IF fault # "none" THEN SheetError(sh, urls)
    ELSE [result |-> "new", raised |-> FALSE,
          sheet |-> append_row(sh,
                      <<candidate.full_name, candidate.linkedin_url,
                        candidate.headline, "", candidate.role_type, "",
                        candidate.email, candidate.phone, Today, "", "">>),
          existing_urls |-> Put(urls, NormalizeUrl(candidate.linkedin_url),
                                Cardinality(DOMAIN urls) + 2)]

\* upload_candidate_realtime.  `fault` names the sheet call that raises:
\* "role" and "date" are the two update_cell calls, "append" is append_row,
\* "none" is a call without error.  A call that raises changes nothing.
upload_candidate_realtime(ws, sh, candidate, urls, date_col_arg, fault) ==
    IF ~ws
    THEN [result |-> "skipped", raised |-> FALSE, sheet |-> sh, existing_urls |-> urls]
    ELSE
    LET url_normalized == NormalizeUrl(candidate.linkedin_url)
        looked_up == get_column_index(sh, "Date Added")
        date_col == IF date_col_arg # None THEN date_col_arg
                          ELSE IF looked_up = None THEN 9 ELSE looked_up
    IN  IF url_normalized \in DOMAIN urls
        THEN LET row_num == urls[url_normalized]
                 role_type == IF "role_type" \in DOMAIN candidate
                              THEN candidate.role_type ELSE "SDR"
                 role_col == IF get_column_index(sh, "Role Fit") = None THEN 5
                             ELSE get_column_index(sh, "Role Fit")
                 sheet1 == update_cell(sh, row_num, role_col, role_type)
                 sheet2 == update_cell(sheet1, row_num, date_col, Today)
             IN  IF fault = "role" THEN SheetError(sh, urls)
                 ELSE IF fault = "date" THEN SheetError(sheet1, urls)
                 ELSE [result |-> "updated", raised |-> FALSE, sheet |-> sheet2,
                       existing_urls |-> urls]
        ELSE LET row == <<candidate.full_name, candidate.linkedin_url,
                          candidate.headline, "",
                          IF "role_type" \in DOMAIN candidate
                          THEN candidate.role_type ELSE "SDR",
                          "", candidate.email, candidate.phone, Today, "", "">>
                 new_row_num == Cardinality(DOMAIN urls) + 2
             IN  IF fault = "append" THEN SheetError(sh, urls)
                 ELSE [result |-> "new", raised |-> FALSE,
                       sheet |-> append_row(sh, row),
                       existing_urls |-> Put(urls, url_normalized, new_row_num)]

(***************************************************************************)
(* Inputs of the specifications.                                           *)
(***************************************************************************)
RECURSIVE Flatten(_)
Flatten(fs) == IF fs = <<>> THEN <<>> ELSE Head(fs) \o Flatten(Tail(fs))

\* The texts made of at most MaxFrags of the given fragments.
Texts(F) == {Flatten(fs) : fs \in SeqsUpTo(F, MaxFrags)}

IdleUrl == url = <<>> /\ norm1 = NotYet /\ norm2 = NotYet

IdleDedup == merged = <<>> /\ unique_candidates = <<>> /\ dedup_pc = "idle"

NoResults ==
    /\ done = {}
    /\ ret_role = ""
    /\ ret_senior = FALSE
    /\ ret_sdr = FALSE
    /\ ret_years = ""
    /\ ret_candidate = <<>>

IdleText ==
    /\ arg_headline = <<>> /\ arg_snippet = <<>> /\ arg_query = <<>>
    /\ now_year = 0
    /\ arg_title = <<>>
    /\ NoResults

NoFile == [exists |-> FALSE, rows |-> <<>>]

IdleUpdate ==
    /\ all_data = <<>>
    /\ yoe_col = 0
    /\ updates = <<>>
    /\ updated_count = 0
    /\ update_i = 0
    /\ update_pc = "idle"

ZeroStats == [new |-> 0, updated |-> 0, skipped |-> 0, filtered |-> 0,
              filtered_non_utah |-> 0, filtered_existing_sdr |-> 0]

IdleRun ==
    /\ worksheet = FALSE
    /\ sheet = [header |-> HEADERS, rows |-> <<>>]
    /\ existing_urls = <<>>
    /\ date_added_col = None
    /\ csv_before = NoFile /\ csv_file = NoFile
    /\ query_i = 0
    /\ candidates = <<>>
    /\ seen_urls = {}
    /\ all_candidates = <<>>
    /\ stats = ZeroStats
    /\ pc = "idle"
    /\ last_fault = "none"
    /\ faults = 0
    /\ argv = <<>>
    /\ base_queries = <<>>
    /\ attempts = <<>>
    /\ last_delay = 0
    /\ runs = <<>>

(***************************************************************************)
(* Specification SpecUrl: the key function applied once and twice.         *)
(***************************************************************************)
InitUrl ==
    /\ url \in SeqsUpTo(UrlChars, MaxUrlLen)
    /\ norm1 = NotYet
    /\ norm2 = NotYet
    /\ IdleUpdate
    /\ IdleDedup /\ IdleText /\ IdleRun

NormalizeOnce ==
    /\ norm1 = NotYet
    /\ norm1' = NormalizeUrl(url)
    /\ UNCHANGED <<url, norm2, dedupVars, textVars, runVars,
                   updateVars>>

NormalizeTwice ==
    /\ norm1 # NotYet
    /\ norm2 = NotYet
    /\ norm2' = NormalizeUrl(norm1)
    /\ UNCHANGED <<url, norm1, dedupVars, textVars, runVars,
                   updateVars>>

NextUrl == NormalizeOnce \/ NormalizeTwice
SpecUrl == InitUrl /\ [][NextUrl]_vars

(***************************************************************************)
(* Specification SpecDedup: deduplicate_candidates on a bounded list.      *)
(***************************************************************************)
DedupUrls == {<<"a">>, <<"A">>, <<"a", "/">>, <<"b">>}
DedupRecords == [linkedin_url : DedupUrls, role_type : {"", "AE"}]

InitDedup ==
    /\ merged \in SeqsUpTo(DedupRecords, MaxCands)
    /\ unique_candidates = <<>>
    /\ dedup_pc = "start"
    /\ IdleUpdate
    /\ IdleUrl /\ IdleText /\ IdleRun

Deduplicate ==
    /\ dedup_pc = "start"
    /\ unique_candidates' = deduplicate_candidates(merged)
    /\ dedup_pc' = "done"
    /\ UNCHANGED <<merged, urlVars, textVars, runVars,
                   updateVars>>

NextDedup == Deduplicate
SpecDedup == InitDedup /\ [][NextDedup]_vars

(***************************************************************************)
(* Specification SpecRole: determine_role_fit on bounded headlines and     *)
(* source queries.                                                         *)
(***************************************************************************)
RoleFragments ==
    {<<"AE">>, <<"sdr">>, <<"intern">>, <<"qualtrics">>, <<"lucidchart">>,
     <<"4", "+", "years">>, <<"saas", "2", "years">>, <<"hello">>}

RoleQueries ==
    {<<>>, <<"account", "executive", "utah">>, <<"AE", "utah">>,
     <<"utah", "ae">>, <<"byu", "saas">>}

InitRole ==
    /\ arg_headline \in Texts(RoleFragments)
    /\ arg_query \in RoleQueries
    /\ arg_snippet = <<>>
    /\ now_year = 0
    /\ arg_title = <<>>
    /\ IdleUpdate
    /\ NoResults
    /\ IdleUrl /\ IdleDedup /\ IdleRun

DetermineRoleFit ==
    /\ "determine_role_fit" \notin done
    /\ ret_role' = determine_role_fit(arg_headline, arg_query)
    /\ done' = done \cup {"determine_role_fit"}
    /\ UNCHANGED <<arg_headline, arg_snippet, arg_query, now_year,
                   arg_title, ret_candidate,
                   ret_senior, ret_sdr, ret_years, urlVars, dedupVars, runVars,
                   updateVars>>

NextRole == DetermineRoleFit
SpecRole == InitRole /\ [][NextRole]_vars

(***************************************************************************)
(* Specification SpecParse: parse_search_result on a URL, a title and a    *)
(* snippet each of which is a string, the empty string or None.            *)
(***************************************************************************)
ParseUrls ==
    {NoneValue, EmptyUrl, <<>>, <<"a", "-", "b">>, <<"a", "b", "-", "1", "2">>,
     <<"A", "/">>}

ParseTitles ==
    {NoneValue, <<>>, <<"jane", "-", "AE", "|", "LinkedIn">>,
     <<"jane", "|", "LinkedIn">>, <<"-", "LinkedIn">>, <<"-", "sdr">>,
     <<"jane", "doe">>}

ParseSnippets == {NoneValue, <<>>, <<"intern", "utah">>}

ParseQueries == {<<>>, <<"account", "executive", "utah">>}

InitParse ==
    /\ url \in ParseUrls
    /\ arg_title \in ParseTitles
    /\ arg_snippet \in ParseSnippets
    /\ arg_query \in ParseQueries
    /\ norm1 = NotYet /\ norm2 = NotYet
    /\ arg_headline = <<>>
    /\ now_year = 0
    /\ IdleUpdate
    /\ NoResults
    /\ IdleDedup /\ IdleRun

ParseSearchResult ==
    /\ "parse_search_result" \notin done
    /\ ret_candidate' = <<parse_search_result(url, arg_title, arg_snippet,
                                              arg_query)>>
    /\ done' = done \cup {"parse_search_result"}
    /\ UNCHANGED <<arg_headline, arg_snippet, arg_query, now_year, arg_title,
                   ret_role, ret_senior, ret_sdr, ret_years, urlVars,
                   dedupVars, runVars,
                   updateVars>>

NextParse == ParseSearchResult
SpecParse == InitParse /\ [][NextParse]_vars

(***************************************************************************)
(* Specification SpecSenior: the two exclusion filters on bounded          *)
(* headlines and snippets.                                                 *)
(***************************************************************************)
SeniorFragments ==
    {<<"Director">>, <<"vp">>, <<"Founder">>, <<"co", "-", "founder">>,
     <<"owner">>, <<"SDR">>, <<"sales", "development">>, <<"hello">>}

SeniorSnippets == {<<>>, <<"bdr", "utah">>, <<"founder", "of", "acme">>}

InitSenior ==
    /\ arg_headline \in Texts(SeniorFragments)
    /\ arg_snippet \in SeniorSnippets
    /\ arg_query = <<>>
    /\ now_year = 0
    /\ arg_title = <<>>
    /\ IdleUpdate
    /\ NoResults
    /\ IdleUrl /\ IdleDedup /\ IdleRun

IsTooSenior ==
    /\ "is_too_senior" \notin done
    /\ ret_senior' = is_too_senior(arg_headline)
    /\ done' = done \cup {"is_too_senior"}
    /\ UNCHANGED <<arg_headline, arg_snippet, arg_query, now_year,
                   arg_title, ret_candidate,
                   ret_role, ret_sdr, ret_years, urlVars, dedupVars, runVars,
                   updateVars>>

IsExistingSdr ==
    /\ "is_existing_sdr" \notin done
    /\ ret_sdr' = is_existing_sdr(arg_headline, arg_snippet)
    /\ done' = done \cup {"is_existing_sdr"}
    /\ UNCHANGED <<arg_headline, arg_snippet, arg_query, now_year,
                   arg_title, ret_candidate,
                   ret_role, ret_senior, ret_years, urlVars, dedupVars, runVars,
                   updateVars>>

NextSenior == IsTooSenior \/ IsExistingSdr
SpecSenior == InitSenior /\ [][NextSenior]_vars

(***************************************************************************)
(* Specification SpecExp: estimate_years_of_experience on bounded          *)
(* headlines, in the years the estimator may run in.                       *)
(***************************************************************************)
ExpFragments ==
    {<<"5", "years", "experience">>, <<"3", "+", "years">>,
     <<"2", "-", "3", "years">>, <<"graduated", "2020">>,
     <<"class", "of", "2014">>, <<"'", "22">>, <<"Senior", "ae">>,
     <<"sdr">>, <<"since", "2028">>, <<"proven", "sales">>,
     <<"2", "years", "at">>, <<"class", "of", "2026">>, <<"2025", "grad">>,
     <<"smb", "account", "executive">>}

CurrentYears == {2025, 2026}

InitExp ==
    /\ arg_headline \in Texts(ExpFragments)
    /\ now_year \in CurrentYears
    /\ arg_snippet = <<>>
    /\ arg_query = <<>>
    /\ arg_title = <<>>
    /\ IdleUpdate
    /\ NoResults
    /\ IdleUrl /\ IdleDedup /\ IdleRun

EstimateYears ==
    /\ "estimate_years_of_experience" \notin done
    /\ ret_years' = estimate_years_of_experience(arg_headline, now_year)
    /\ done' = done \cup {"estimate_years_of_experience"}
    /\ UNCHANGED <<arg_headline, arg_snippet, arg_query, now_year,
                   arg_title, ret_candidate,
                   ret_role, ret_senior, ret_sdr, urlVars, dedupVars, runVars,
                   updateVars>>

NextExp == EstimateYears
SpecExp == InitExp /\ [][NextExp]_vars

(***************************************************************************)
(* Specification SpecRun: main, from connecting to the sheet to the        *)
(* rewrite of the backup.                                                  *)
(***************************************************************************)
\* The query lists, cut down to one query each.
SDR_GOOGLE_QUERIES == << <<"recent", "graduate", "utah">> >>
AE_GOOGLE_QUERIES == << <<"account", "executive", "utah">> >>
GOOGLE_QUERIES == SDR_GOOGLE_QUERIES \o AE_GOOGLE_QUERIES

MIN_DELAY == 2
MAX_DELAY == 4
BATCH_SIZE == 8
BATCH_PAUSE == 10

\* int(sys.argv[1]) on the arguments of the model; a ValueError leaves
\* batch_num None, as no argument does.
IntArgs == (-2)..9

batch_num(args) ==
    IF args # <<>> /\ \E n \in IntArgs : ToString(n) = args[1]
    THEN [is_none |-> FALSE, value |-> CHOOSE n \in IntArgs : ToString(n) = args[1]]
    ELSE [is_none |-> TRUE, value |-> 0]

\* A slice bound of Python on a list of n elements.
SliceBound(idx, n) ==
    IF idx < 0 THEN (IF n + idx < 0 THEN 0 ELSE n + idx)
    ELSE IF idx > n THEN n ELSE idx

\* s[start:end]
PySlice(s, start, end) ==
    SubSeq(s, SliceBound(start, Len(s)) + 1, SliceBound(end, Len(s)))

\* A slip: the first batch starts after BATCH_SIZE queries.
SelectQueries_from_batch(base, batch) ==
    IF batch.is_none THEN base
    ELSE LET start_idx == batch.value * BATCH_SIZE
             end_idx == start_idx + BATCH_SIZE
         IN  PySlice(base, start_idx, end_idx)

\* Lines 1165-1169.
SelectQueries(base, batch) ==
    IF batch.is_none THEN base
    ELSE LET start_idx == (batch.value - 1) * BATCH_SIZE
             end_idx == start_idx + BATCH_SIZE
         IN  PySlice(base, start_idx, end_idx)

queries_to_run == SelectQueries(base_queries, batch_num(argv))

\* A slip: the pause after a batch is forgotten.
SleepTimes_NoBatchPause(qi, n) ==
    IF qi < n THEN MIN_DELAY..MAX_DELAY ELSE {0}

\* The seconds main may sleep after the query at position qi of n: whole
\* seconds stand for the reals random.uniform draws, 0 for no sleep.
SleepTimes(qi, n) ==
    IF qi < n
    THEN IF qi % BATCH_SIZE = 0 THEN {BATCH_PAUSE} ELSE MIN_DELAY..MAX_DELAY
    ELSE {0}

\* A slip: every query is taken for an SDR query.
query_type_always_sdr(query) == "SDR"

query_type(query) ==
    IF \E k \in 1..Len(AE_GOOGLE_QUERIES) : AE_GOOGLE_QUERIES[k] = query
    THEN "AE" ELSE "SDR"

\* What a search provider may return for a query: lists of hits, a hit being
\* the URL, the title and the snippet of a profile page.
Hit(u, title, snippet) == [url |-> u, title |-> title, snippet |-> snippet]

JaneAE == Hit(<<"a">>, <<"jane", "-", "AE", "utah", "|", "LinkedIn">>, <<>>)
JaneIntern == Hit(<<"A", "/">>, <<"jane", "-", "intern", "byu">>, <<>>)
BobDirector == Hit(<<"b">>, <<"bob", "-", "Director", "utah">>, <<>>)
BobSdr == Hit(<<"b", "/">>, <<>>, <<"SDR", "utah">>)
AmyElsewhere == Hit(<<"a", "b">>, <<"amy", "-", "hello">>, <<>>)
AbeStudent == Hit(<<"a", "b", "/">>, <<"abe">>, <<"byu", "student">>)
CalSdr == Hit(<<"b", "b">>, <<"cal", "-", "sdr", "utah">>, <<>>)

ProfileLists ==
    {<<>>, <<JaneAE>>, <<JaneIntern>>, <<JaneAE, JaneIntern>>,
     <<JaneIntern, JaneAE>>, <<BobDirector, BobSdr>>, <<BobSdr, JaneAE>>,
     <<AmyElsewhere, AbeStudent>>, <<AbeStudent, JaneIntern>>, <<CalSdr>>}

\* The two queries of the model's GOOGLE_QUERIES find profiles, any other
\* query finds none.
SearchResults(query) ==
    IF \E k \in 1..Len(GOOGLE_QUERIES) : GOOGLE_QUERIES[k] = query
    THEN ProfileLists ELSE {<<>>}

\* The search calls that fail in a run are at most MaxSearchFailures.
MaxSearchFailures == 1

\* How a search call may fail: the provider's call raises and there are no
\* hits, or the last of the hits cannot be handled.
SearchFailures(hits) ==
    IF Cardinality({k \in 1..Len(attempts) : attempts[k].failure # "none"})
         >= MaxSearchFailures
    THEN {"none"}
    ELSE IF hits = <<>> THEN {"none", "provider"} ELSE {"none", "result"}

\* The sheet as the run finds it.  Its first header cell reads 'Full Name',
\* so get_or_create_worksheet inserts no header row.
SheetRow(name, u, headline, role, date) ==
    <<name, u, headline, "", role, "", "", "", date, "", "">>

\* A header with 'Role Fit' and 'Notes' exchanged and no 'Date Added'.
OtherHeaders ==
    <<"Full Name", "LinkedIn URL", "Headline", "Years of Experience",
      "Notes", "ROLE FIT", "Email", "Phone", "Added", "Status", "AI Draft">>

InitialSheets ==
    {[header |-> HEADERS, rows |-> <<>>],
     [header |-> HEADERS,
      rows |-> <<SheetRow(<<"jane">>, <<"a">>, <<"intern">>, "", "old")>>],
     [header |-> HEADERS,
      rows |-> <<SheetRow(<<>>, <<>>, <<>>, "", ""),
                 SheetRow(<<"abe">>, <<"a", "b">>, <<"student">>, "SDR", "old")>>],
     [header |-> OtherHeaders,
      rows |-> <<SheetRow(<<"jane">>, <<"A">>, <<"intern">>, "", "old"),
                 SheetRow(<<"jane">>, <<"a", "/">>, <<"AE">>, "", "old")>>]}

\* The backup as the final merge finds it.
InitialBackups ==
    {NoFile,
     [exists |-> TRUE,
      rows |-> <<CsvRow(<<"jane">>, <<"a">>, <<"sdr", "utah">>, "", "", "")>>],
     [exists |-> TRUE,
      rows |-> <<CsvRow(<<"jane">>, <<"a">>, <<"intern">>, "", "", ""),
                 CsvRow(<<"jane">>, <<"A", "/">>, <<"AE">>, "AE", "", "")>>],
     [exists |-> TRUE,
      rows |-> <<CsvRow(<<"jane">>, <<"a", "/">>, <<"AE">>, "AE", "3", "old"),
                 CsvRow(<<"jane">>, <<"a">>, <<"hello">>, "", "", "")>>],
     [exists |-> TRUE,
      rows |-> <<CsvRow(<<"bob">>, <<"b", "b">>, <<"sdr">>, "SDR", "3", "old")>>],
     [exists |-> TRUE,
      rows |-> <<ShortRow(<<"jane">>, NoneValue, NoneValue)>>],
     [exists |-> TRUE,
      rows |-> <<CsvRow(<<"bob">>, <<"b">>, <<"sdr">>, "Both", "", ""),
                 ShortRow(<<"amy">>, <<"a", "b">>, NoneValue)>>]}

\* The sheet calls that fail in a run are at most MaxFaults.
MaxFaults == 1

\* The sheet calls an upload of the candidate makes, "none" for no failure.
Faults(candidate, urls) ==
    IF NormalizeUrl(candidate.linkedin_url) \in DOMAIN urls
    THEN {"none", "role", "date"} ELSE {"none", "append"}

InitRun ==
    /\ sheet \in InitialSheets
    /\ worksheet = FALSE
    /\ existing_urls = <<>>
    /\ date_added_col = None
    /\ csv_before = NoFile /\ csv_file = NoFile
    /\ query_i = 0
    /\ candidates = <<>>
    /\ seen_urls = {}
    /\ all_candidates = <<>>
    /\ stats = ZeroStats
    /\ pc = "connect"
    /\ last_fault = "none"
    /\ faults = 0
    /\ argv = <<>>
    /\ base_queries = GOOGLE_QUERIES
    /\ attempts = <<>>
    /\ last_delay = 0
    /\ runs = <<>>
    /\ IdleUpdate
    /\ IdleUrl /\ IdleDedup /\ IdleText

\* Lines 1176-1187: no client or no sheet leaves the run without a handle;
\* a sheet whose URL column cannot be read gives a handle and an empty map.
ConnectSheet ==
    /\ pc = "connect"
    /\ \E connected \in BOOLEAN, read_fails \in BOOLEAN :
          IF connected
          THEN /\ worksheet' = TRUE
               /\ existing_urls' = get_existing_urls_from_sheet(sheet, read_fails)
               /\ date_added_col' = get_column_index(sheet, "Date Added")
          ELSE /\ read_fails = FALSE
               /\ UNCHANGED <<worksheet, existing_urls, date_added_col>>
    /\ query_i' = 1
    /\ pc' = IF queries_to_run = <<>> THEN "save" ELSE "search"
    /\ UNCHANGED <<sheet, csv_before, csv_file, candidates, seen_urls,
                   all_candidates, stats, last_fault, faults, envVars,
                   urlVars, dedupVars, textVars,
                   updateVars>>

\* Line 1200.  A run after the first is given what the first was given.
SearchQuery ==
    /\ pc = "search"
    /\ \E hits \in SearchResults(queries_to_run[query_i]) :
       \E failure \in SearchFailures(hits) :
          LET found == search_candidates(queries_to_run[query_i], hits, failure)
          IN  /\ runs # <<>> =>
                    /\ hits = runs[1].attempts[query_i].hits
                    /\ failure = runs[1].attempts[query_i].failure
              /\ candidates' = found.candidates
              /\ attempts' = Append(attempts, [query |-> queries_to_run[query_i],
                                               hits |-> hits,
                                               failure |-> failure])
              /\ pc' = IF found.raised THEN "search_raised" ELSE "process"
    /\ last_delay' = 0
    /\ UNCHANGED <<worksheet, sheet, existing_urls, date_added_col, csv_before,
                   csv_file, query_i, seen_urls, all_candidates, stats,
                   last_fault, faults, argv, base_queries, runs,
                   urlVars, dedupVars, textVars,
                   updateVars>>

Count(name) == [stats EXCEPT ![name] = @ + 1]

\* A slip: the keys seen are not consulted.
SeenThisSession_never(url_normalized, seen) == FALSE

\* Lines 1206-1208: `if url_normalized in seen_urls: continue`.
SeenThisSession(url_normalized, seen) == url_normalized \in seen

\* One turn of the loop of lines 1203-1238.
ProcessCandidate ==
    /\ pc = "process"
    /\ candidates # <<>>
    /\ LET candidate == Head(candidates)
           url_normalized == NormalizeUrl(candidate.linkedin_url)
           filtered_as ==
               IF is_too_senior(candidate.headline) THEN "filtered"
               ELSE IF /\ query_type(queries_to_run[query_i]) = "SDR"
                       /\ is_existing_sdr(candidate.headline, candidate.snippet)
                    THEN "filtered_existing_sdr"
               ELSE IF ~is_utah_connected(candidate.headline, candidate.snippet)
                    THEN "filtered_non_utah"
               ELSE "kept"
       IN  /\ candidates' = Tail(candidates)
           /\ seen_urls' = seen_urls \cup {url_normalized}
           /\ IF SeenThisSession(url_normalized, seen_urls)
              THEN /\ last_fault' = "none"
                   /\ UNCHANGED <<all_candidates, stats, sheet, existing_urls,
                                  faults, pc>>
              ELSE IF filtered_as # "kept"
              THEN /\ stats' = Count(filtered_as)
                   /\ last_fault' = "none"
                   /\ UNCHANGED <<all_candidates, sheet, existing_urls, faults, pc>>
              ELSE IF ~worksheet
              THEN /\ all_candidates' = Append(all_candidates, candidate)
                   /\ last_fault' = "none"
                   /\ UNCHANGED <<stats, sheet, existing_urls, faults, pc>>
              ELSE \E fault \in Faults(candidate, existing_urls) :
                      LET r == upload_candidate_realtime(worksheet, sheet, candidate,
                                   existing_urls, date_added_col, fault)
                      IN  /\ fault # "none" => faults < MaxFaults
                          /\ all_candidates' = Append(all_candidates, candidate)
                          /\ last_fault' = fault
                          /\ faults' = IF fault = "none" THEN faults ELSE faults + 1
                          /\ sheet' = r.sheet
                          /\ existing_urls' = r.existing_urls
                          /\ IF r.raised
                             THEN pc' = "upload_raised" /\ UNCHANGED stats
                             ELSE pc' = pc /\ stats' = Count(r.result)
    /\ UNCHANGED <<worksheet, date_added_col, csv_before, csv_file, query_i,
                   envVars, urlVars, dedupVars, textVars,
                   updateVars>>

\* Lines 1240-1247: the sleep after a query that is not the last; time.sleep
\* returns when the seconds have passed.
RateLimit ==
    /\ pc = "process"
    /\ candidates = <<>>
    /\ last_delay' \in SleepTimes(query_i, Len(queries_to_run))
    /\ query_i' = query_i + 1
    /\ pc' = IF query_i < Len(queries_to_run) THEN "search" ELSE "save"
    /\ last_fault' = "none"
    /\ UNCHANGED <<worksheet, sheet, existing_urls, date_added_col, csv_before,
                   csv_file, candidates, seen_urls, all_candidates, stats,
                   faults, argv, base_queries, attempts, runs,
                   urlVars, dedupVars, textVars,
                   updateVars>>

\* Lines 1272-1278.  The file is read here and nowhere before, so what it
\* holds is an input of this step; a run that kept nothing leaves it alone.
\* An error of the merge leaves main before the file is opened for writing.
\* A run after the first finds the file as the first left it.
SaveBackup ==
    /\ pc = "save"
    /\ \E file \in IF runs = <<>> THEN InitialBackups ELSE {csv_file} :
          /\ csv_before' = file
          /\ IF all_candidates # <<>>
             THEN LET existing_candidates == load_existing_candidates(file)
                  IN  /\ merged' = existing_candidates \o all_candidates
                      /\ IF DedupRaises(merged')
                         THEN /\ pc' = "merge_raised"
                              /\ csv_file' = file
                              /\ UNCHANGED unique_candidates
                         ELSE /\ pc' = "done"
                              /\ unique_candidates' = deduplicate_candidates(merged')
                              /\ csv_file' = save_to_csv(unique_candidates')
             ELSE /\ pc' = "done"
                  /\ csv_file' = file
                  /\ UNCHANGED <<merged, unique_candidates>>
    /\ UNCHANGED <<worksheet, sheet, existing_urls, date_added_col, query_i,
                   candidates, seen_urls, all_candidates, stats, last_fault,
                   faults, envVars, dedup_pc, urlVars, textVars,
                   updateVars>>

NextRun == ConnectSheet \/ SearchQuery \/ ProcessCandidate \/ RateLimit \/ SaveBackup
SpecRun == InitRun /\ [][NextRun]_vars

\* The run is one sequential program: a step that can be taken is taken.
FairSpecRun == InitRun /\ [][NextRun]_vars /\ WF_vars(NextRun)

(***************************************************************************)
(* Specification SpecTwice: a run, and then a second run that is given the *)
(* search results of the first and finds the sheet and the backup as the   *)
(* first left them.                                                        *)
(***************************************************************************)
\* The script is started again after a run that had the sheet and in which
\* no sheet call failed: the locals of main are new, the sheet and the file
\* stay.
RunAgain ==
    /\ pc = "done"
    /\ runs = <<>>
    /\ worksheet
    /\ faults = 0
    /\ runs' = <<[attempts |-> attempts, worksheet |-> worksheet,
                  stats |-> stats, rows |-> Len(sheet.rows)]>>
    /\ worksheet' = FALSE
    /\ existing_urls' = <<>>
    /\ date_added_col' = None
    /\ query_i' = 0
    /\ candidates' = <<>>
    /\ seen_urls' = {}
    /\ all_candidates' = <<>>
    /\ stats' = ZeroStats
    /\ pc' = "connect"
    /\ last_fault' = "none"
    /\ attempts' = <<>>
    /\ last_delay' = 0
    /\ UNCHANGED <<sheet, csv_before, csv_file, faults, argv, base_queries,
                   urlVars, dedupVars, textVars,
                   updateVars>>

NextTwice ==
    ConnectSheet \/ SearchQuery \/ ProcessCandidate \/ RateLimit \/ SaveBackup
      \/ RunAgain
SpecTwice == InitRun /\ [][NextTwice]_vars

(***************************************************************************)
(* Specification SpecDryRun: the run that dry_run of agent_commands.py     *)
(* starts.                                                                 *)
(***************************************************************************)
\* The arguments dry_run gives the script.
dry_run(role_type) == <<"--dry-run", "--type", role_type>>

InitDryRun ==
    /\ argv \in {dry_run(role_type) : role_type \in {"both", "sdr"}}
    /\ base_queries = GOOGLE_QUERIES
    /\ sheet \in InitialSheets
    /\ worksheet = FALSE
    /\ existing_urls = <<>>
    /\ date_added_col = None
    /\ csv_before = NoFile /\ csv_file = NoFile
    /\ query_i = 0
    /\ candidates = <<>>
    /\ seen_urls = {}
    /\ all_candidates = <<>>
    /\ stats = ZeroStats
    /\ pc = "connect"
    /\ last_fault = "none"
    /\ faults = 0
    /\ attempts = <<>>
    /\ last_delay = 0
    /\ runs = <<>>
    /\ IdleUpdate
    /\ IdleUrl /\ IdleDedup /\ IdleText

SpecDryRun == InitDryRun /\ [][NextRun]_vars

(***************************************************************************)
(* Specification SpecPace: the loop of main over query lists long enough   *)
(* for a batch pause, with and without a batch argument, on queries that   *)
(* find no profile.                                                        *)
(***************************************************************************)
MaxQueries == 9

PaceQueries(n) == [k \in 1..n |-> <<"query", ToString(k)>>]

PaceArgs == {<<>>, <<"1">>, <<"2">>, <<"3">>, <<"0">>, <<"-1">>, <<"-2">>}

InitPace ==
    /\ argv \in PaceArgs
    /\ base_queries \in {PaceQueries(n) : n \in 1..MaxQueries}
    /\ sheet = [header |-> HEADERS, rows |-> <<>>]
    /\ worksheet = FALSE
    /\ existing_urls = <<>>
    /\ date_added_col = None
    /\ csv_before = NoFile /\ csv_file = NoFile
    /\ query_i = 0
    /\ candidates = <<>>
    /\ seen_urls = {}
    /\ all_candidates = <<>>
    /\ stats = ZeroStats
    /\ pc = "connect"
    /\ last_fault = "none"
    /\ faults = 0
    /\ attempts = <<>>
    /\ last_delay = 0
    /\ runs = <<>>
    /\ IdleUpdate
    /\ IdleUrl /\ IdleDedup /\ IdleText

NextPace == ConnectSheet \/ SearchQuery \/ RateLimit \/ SaveBackup
SpecPace == InitPace /\ [][NextPace]_vars

(***************************************************************************)
(* Specification SpecUpdate: main of update_experience.py, the pass that   *)
(* fills the Years of Experience column of the sheet: the sheet is read    *)
(* once, the cells to write are planned, and they are written with one     *)
(* batch request or, when that fails, cell by cell.                        *)
(***************************************************************************)
\* Column positions of update_experience.py (1-indexed).  main reads the
\* headline as row[2] and repeats the number 8 as its fallback (line 181).
COL_HEADLINE == 3
COL_YEARS_EXP == 8

\* 'year' in header.lower() and 'exp' in header.lower(), on the header
\* cells of the model.
NamesYearsOfExperience(header) ==
    header \in {"Years of Experience", "years of exp", "Experience (years)"}

\* Lines 172-181: the first header cell naming the years, else column H.
FindYoeCol(headers) ==
    LET P == {idx \in 1..Len(headers) : NamesYearsOfExperience(headers[idx])}
    IN  IF P = {} THEN COL_YEARS_EXP ELSE Leftmost(P)

\* str.strip() on the cells of the model.
Strip(s) == IF s \in {" ", "  "} THEN "" ELSE s

\* row[col - 1] if len(row) >= col else ""
CellOf(row, col) == IF Len(row) >= col THEN row[col] ELSE ""

\* A slip: every row is estimated, whatever its cell holds.
NeedsEstimate_always(current_yoe) == TRUE

\* Lines 196-199: a row whose cell holds a value is skipped.
NeedsEstimate(current_yoe) == Strip(current_yoe) = ""

\* Lines 189-210: the cells to write, in the order of the rows; the sheet's
\* row of the k-th data row is k + 1.  The name and the headline an entry
\* also carries are only printed.
PlanUpdates(data, col, current_year) ==
    LET Estimate(k) ==
            estimate_years_of_experience(CellOf(data.rows[k], COL_HEADLINE),
                                         current_year)
        planned == SelectSeq([k \in 1..Len(data.rows) |-> k],
                             LAMBDA k : /\ NeedsEstimate(CellOf(data.rows[k], col))
                                        /\ Estimate(k) # "")
    IN  [j \in 1..Len(planned) |->
            [row |-> planned[j] + 1, yoe |-> Estimate(planned[j])]]

\* worksheet.batch_update(batch_data): every planned cell is written.
RECURSIVE batch_update(_, _, _)
batch_update(sh, batch_data, col) ==
    IF batch_data = <<>> THEN sh
    ELSE batch_update(update_cell(sh, Head(batch_data).row, col,
                                  Head(batch_data).yoe),
                      Tail(batch_data), col)

\* The rows of the sheet the pass may find.
MaxRows == 2

UpdateRow(headline, yoe, phone) ==
    <<<<"jane">>, <<"a">>, headline, yoe, "SDR", "", "", phone, "old", "", "">>

UpdateRows ==
    {UpdateRow(headline, yoe, phone) :
        headline \in {<<"sdr">>, <<"hello">>, <<"since", "2028">>},
        yoe \in {"", " ", "3"},
        phone \in {"", "555"}}

\* The fixed header with the years under another name.
NoYearsHeaders ==
    <<"Full Name", "LinkedIn URL", "Headline", "YOE", "Role Fit", "Notes",
      "Email", "Phone", "Date Added", "Status", "AI Draft">>

InitUpdate ==
    /\ sheet \in {[header |-> h, rows |-> rs] :
                     h \in {HEADERS, NoYearsHeaders},
                     rs \in SeqsUpTo(UpdateRows, MaxRows)}
    /\ worksheet = TRUE
    /\ existing_urls = <<>>
    /\ date_added_col = None
    /\ csv_before = NoFile /\ csv_file = NoFile
    /\ query_i = 0
    /\ candidates = <<>>
    /\ seen_urls = {}
    /\ all_candidates = <<>>
    /\ stats = ZeroStats
    /\ pc = "idle"
    /\ last_fault = "none"
    /\ faults = 0
    /\ argv = <<>>
    /\ base_queries = <<>>
    /\ attempts = <<>>
    /\ last_delay = 0
    /\ runs = <<>>
    /\ all_data = <<>>
    /\ yoe_col = 0
    /\ updates = <<>>
    /\ updated_count = 0
    /\ update_i = 0
    /\ update_pc = "read"
    /\ arg_headline = <<>> /\ arg_snippet = <<>> /\ arg_query = <<>>
    /\ arg_title = <<>>
    /\ now_year = 2026
    /\ NoResults
    /\ IdleUrl /\ IdleDedup

\* Lines 164-215: the sheet is read, the column is found, the cells are
\* planned; without a cell to write main returns.
ReadSheet ==
    /\ update_pc = "read"
    /\ all_data' = sheet
    /\ yoe_col' = FindYoeCol(sheet.header)
    /\ updates' = PlanUpdates(sheet, yoe_col', now_year)
    /\ update_pc' = IF updates' = <<>> THEN "done" ELSE "batch"
    /\ UNCHANGED <<updated_count, update_i, urlVars, dedupVars, textVars,
                   runVars>>

\* Lines 232-248: one request for all the cells; when it raises, nothing was
\* written and the fallback loop starts.
BatchUpdate ==
    /\ update_pc = "batch"
    /\ \E raises \in BOOLEAN :
          IF raises
          THEN /\ update_pc' = "fallback"
               /\ update_i' = 1
               /\ UNCHANGED <<sheet, updated_count>>
          ELSE /\ sheet' = batch_update(sheet, updates, yoe_col)
               /\ updated_count' = Len(updates)
               /\ update_pc' = "done"
               /\ UNCHANGED update_i
    /\ UNCHANGED <<all_data, yoe_col, updates, worksheet, existing_urls,
                   date_added_col, csv_before, csv_file, query_i, candidates,
                   seen_urls, all_candidates, stats, pc, last_fault, faults,
                   envVars, urlVars, dedupVars, textVars>>

\* Lines 250-262: one turn of the fallback loop; a cell whose update_cell
\* raises is left as it was.  The pause after every tenth cell only waits.
UpdateCell ==
    /\ update_pc = "fallback"
    /\ \E raises \in BOOLEAN :
          IF raises
          THEN UNCHANGED <<sheet, updated_count>>
          ELSE /\ sheet' = update_cell(sheet, updates[update_i].row, yoe_col,
                                       updates[update_i].yoe)
               /\ updated_count' = updated_count + 1
    /\ update_i' = update_i + 1
    /\ update_pc' = IF update_i = Len(updates) THEN "done" ELSE "fallback"
    /\ UNCHANGED <<all_data, yoe_col, updates, worksheet, existing_urls,
                   date_added_col, csv_before, csv_file, query_i, candidates,
                   seen_urls, all_candidates, stats, pc, last_fault, faults,
                   envVars, urlVars, dedupVars, textVars>>

NextUpdate == ReadSheet \/ BatchUpdate \/ UpdateCell
SpecUpdate == InitUpdate /\ [][NextUpdate]_vars

(***************************************************************************)
(* Claims                                                                  *)
(***************************************************************************)
Key(c) == NormalizeUrl(c.linkedin_url)

\* Positions of `cands` holding the first occurrence of their key.
FirstOccurrences(cands) ==
    {i \in 1..Len(cands) : \A j \in 1..(i - 1) : Key(cands[j]) # Key(cands[i])}

\* The k-th smallest element of a set of positions.
KthOf(S, k) == CHOOSE i \in S : Cardinality({j \in S : j <= i}) = k

\* C1: the output of deduplicate_candidates is the subsequence of the input
\* made of the first occurrence of each normalized profile URL, in input
\* order, each record with its fields unchanged; so one record per key.
C1_DedupFirstOccurrences ==
    dedup_pc = "done" =>
        LET F == FirstOccurrences(merged)
        IN  /\ Len(unique_candidates) = Cardinality(F)
            /\ \A k \in 1..Len(unique_candidates) :
                  unique_candidates[k] = merged[KthOf(F, k)]
            /\ \A k, l \in 1..Len(unique_candidates) :
                  k # l => Key(unique_candidates[k]) # Key(unique_candidates[l])

\* A list with a repeated key, whose later record differs from the first,
\* and with another key after it was deduplicated.
C1_Witness ==
    /\ dedup_pc = "done"
    /\ Len(unique_candidates) < Len(merged)
    /\ \E i, j \in 1..Len(merged) :
          /\ i < j
          /\ Key(merged[i]) = Key(merged[j])
          /\ merged[i] # merged[j]
          /\ Key(merged[i]) # Key(merged[Len(merged)])

\* C2: the key function is idempotent: normalize(normalize(u)) = normalize(u).
C2_NormalizeIdempotent == norm2 # NotYet => norm2 = norm1

\* A URL with an upper-case letter and two trailing slashes was normalized
\* twice.
C2_Witness ==
    /\ norm2 # NotYet
    /\ Len(url) >= 3
    /\ url[Len(url)] = "/" /\ url[Len(url) - 1] = "/"
    /\ url[1] = "A"
    /\ norm1 # url

\* C6: for a non-empty headline with scoreA = the SDR score and scoreB = the
\* AE score, determine_role_fit returns AE if scoreB > scoreA and
\* scoreB >= 2; else SDR if scoreA > scoreB; else SDR/AE if both are
\* positive; else AE if scoreB > 0; else SDR.
C6_RoleDecisionRule ==
    ("determine_role_fit" \in done /\ arg_headline # <<>>) =>
        LET scoreA == sdr_score(arg_headline)
            scoreB == ae_score(arg_headline)
        IN  ret_role =
                IF scoreB > scoreA /\ scoreB >= 2 THEN "AE"
                ELSE IF scoreA > scoreB THEN "SDR"
                ELSE IF scoreA > 0 /\ scoreB > 0 THEN "SDR/AE"
                ELSE IF scoreB > 0 THEN "AE"
                ELSE "SDR"

\* A headline with equal, positive scores was labelled SDR/AE.
C6_Witness ==
    /\ "determine_role_fit" \in done
    /\ arg_headline # <<>>
    /\ sdr_score(arg_headline) = ae_score(arg_headline)
    /\ sdr_score(arg_headline) >= 2
    /\ ret_role = "SDR/AE"

\* C7: for every headline and source query, the empty ones included,
\* determine_role_fit returns a label, and it is one of SDR, AE, SDR/AE.
C7_RoleLabelTotal ==
    "determine_role_fit" \in done => ret_role \in {"SDR", "AE", "SDR/AE"}

\* The function was applied to an empty headline with an empty query.
C7_Witness ==
    /\ "determine_role_fit" \in done
    /\ arg_headline = <<>>
    /\ arg_query = <<>>
    /\ ret_role = "SDR"

\* The text names a founder or an owner.
NamesFounderOrOwner(t) ==
    \E i \in 1..Len(t) : LowerWord(t[i]) \in {"founder", "owner", "cofounder"}

\* C8: when the inspected text matches an allow-list pattern, is_too_senior
\* and is_existing_sdr return False, whether or not an exclusion pattern
\* matches; they return True only when an exclusion pattern matches and no
\* allow-list pattern does.
C8_AllowListPrecedence ==
    /\ "is_too_senior" \in done =>
          /\ NamesFounderOrOwner(arg_headline) => ~ret_senior
          /\ ret_senior =>
                /\ AnyMatch(EXCLUDED_TITLES, LowerText(arg_headline))
                /\ ~NamesFounderOrOwner(arg_headline)
    /\ "is_existing_sdr" \in done =>
          /\ NamesFounderOrOwner(JoinText(arg_headline, arg_snippet)) => ~ret_sdr
          /\ ret_sdr =>
                /\ AnyMatch(EXISTING_SDR_TITLES, LowerText(JoinText(arg_headline, arg_snippet)))
                /\ ~NamesFounderOrOwner(JoinText(arg_headline, arg_snippet))

\* A headline naming a director and an SDR who is also a founder passed both
\* filters.
C8_Witness ==
    /\ done = {"is_too_senior", "is_existing_sdr"}
    /\ \E i, j, k \in 1..Len(arg_headline) :
          /\ arg_headline[i] = "Director"
          /\ arg_headline[j] = "Founder"
          /\ arg_headline[k] = "SDR"
    /\ ~ret_senior
    /\ ~ret_sdr

\* C9: the rules of the estimator are tried in a fixed order and the first
\* that matches decides: a headline that matches an explicit-years pattern
\* gets the result of rule 1, whatever later rules match; "5 years
\* experience" at its start yields "5" even with a graduation year after.
C9_ExplicitYearsFirst ==
    "estimate_years_of_experience" \in done =>
        LET t == LowerText(arg_headline)
        IN  /\ (\E k \in 1..5 : ExplicitMatches(k, t)) =>
                  /\ ret_years # ""
                  /\ ret_years = Rule1(t)
            /\ At(<<"5", "years", "experience">>, t, 1) => ret_years = "5"

\* "5 years experience graduated 2020" was estimated in 2026, when the
\* graduation rule alone would say 6.
C9_Witness ==
    /\ "estimate_years_of_experience" \in done
    /\ arg_headline = <<"5", "years", "experience", "graduated", "2020">>
    /\ now_year = 2026
    /\ Rule2(LowerText(arg_headline), now_year) = "6"
    /\ ret_years = "5"

\* The rows of a backup file whose URL has the key.
RowsOf(file, key) ==
    {r \in 1..Len(file.rows) : NormalizeUrl(file.rows[r].LinkedInURL) = key}

Rewrote == pc = "done" /\ all_candidates # <<>>

\* The loop over the queries is behind: main is at the backup or after it.
LoopOver == pc \in {"save", "done", "merge_raised"}

\* C3: after a run that rewrites the backup, no two rows of the backup have
\* URLs with the same key, whatever the backup held before and whatever the
\* searches returned.
C3_BackupOneRowPerKey ==
    Rewrote =>
        \A r1, r2 \in 1..Len(csv_file.rows) :
            NormalizeUrl(csv_file.rows[r1].LinkedInURL)
              = NormalizeUrl(csv_file.rows[r2].LinkedInURL) => r1 = r2

\* The backup held two rows of one key, written differently, and the run
\* kept a record of that key as well.
C3_Witness ==
    /\ Rewrote
    /\ \E r1, r2 \in 1..Len(csv_before.rows) :
          /\ r1 # r2
          /\ csv_before.rows[r1].LinkedInURL # csv_before.rows[r2].LinkedInURL
          /\ RowsOf(csv_before, NormalizeUrl(csv_before.rows[r1].LinkedInURL))
               = {r1, r2}
          /\ \E k \in 1..Len(all_candidates) :
                Key(all_candidates[k])
                  = NormalizeUrl(csv_before.rows[r1].LinkedInURL)
    /\ Len(csv_file.rows) >= 1

\* The column of the role label and of the date stamp: the one under the
\* header, the fifth and the ninth on a sheet without that header.
LabelColumn ==
    IF \E k \in 1..Len(sheet.header) : NormHeader(sheet.header[k]) = "role fit"
    THEN CHOOSE k \in 1..Len(sheet.header) :
            /\ NormHeader(sheet.header[k]) = "role fit"
            /\ \A l \in 1..(k - 1) : NormHeader(sheet.header[l]) # "role fit"
    ELSE 5

DateColumn ==
    IF \E k \in 1..Len(sheet.header) : NormHeader(sheet.header[k]) = "date added"
    THEN CHOOSE k \in 1..Len(sheet.header) :
            /\ NormHeader(sheet.header[k]) = "date added"
            /\ \A l \in 1..(k - 1) : NormHeader(sheet.header[l]) # "date added"
    ELSE 9

\* A step of the run that uploads the record it keeps.
Uploads == worksheet /\ Len(all_candidates') = Len(all_candidates) + 1

\* C4: an upload in which no sheet call fails, of a record whose key the map
\* holds, sets the role label and the date stamp of the row the map names
\* (a row of that key), changes nothing else, appends no row and reports
\* 'updated'; of a record whose key the map lacks, it appends exactly one row
\* with the record and today's date, adds the key to the map and reports
\* 'new'.
C4_UploadUpdatesOrAppends ==
    [][(Uploads /\ last_fault' = "none") =>
        LET c == all_candidates'[Len(all_candidates')]
            n == Len(sheet.rows)
        IN  IF Key(c) \in DOMAIN existing_urls
            THEN LET r == existing_urls[Key(c)] - 1
                 IN  /\ stats' = [stats EXCEPT !.updated = @ + 1]
                     /\ Len(sheet'.rows) = n
                     /\ r \in 1..n
                     /\ NormalizeUrl(sheet.rows[r][2]) = Key(c)
                     /\ sheet'.rows[r][LabelColumn] = c.role_type
                     /\ sheet'.rows[r][DateColumn] = Today
                     /\ \A q \in 1..n : \A col \in 1..Len(sheet.rows[q]) :
                           (q # r \/ col \notin {LabelColumn, DateColumn}) =>
                               sheet'.rows[q][col] = sheet.rows[q][col]
                     /\ existing_urls' = existing_urls
            ELSE /\ stats' = [stats EXCEPT !.new = @ + 1]
                 /\ Len(sheet'.rows) = n + 1
                 /\ SubSeq(sheet'.rows, 1, n) = sheet.rows
                 /\ sheet'.rows[n + 1][1] = c.full_name
                 /\ sheet'.rows[n + 1][2] = c.linkedin_url
                 /\ sheet'.rows[n + 1][5] = c.role_type
                 /\ sheet'.rows[n + 1][9] = Today
                 /\ DOMAIN existing_urls' = DOMAIN existing_urls \cup {Key(c)}
                 /\ \A k \in DOMAIN existing_urls :
                       existing_urls'[k] = existing_urls[k]]_vars

\* A run without a failing call that updated a row it found, on a sheet
\* whose role column is not the fifth, and appended a row.
C4_Witness ==
    /\ pc = "done"
    /\ faults = 0
    /\ stats.updated >= 1
    /\ stats.new >= 1
    /\ LabelColumn # 5

Arrivals ==
    [k \in 1..Len(csv_before.rows) |->
        [linkedin_url |-> csv_before.rows[k].LinkedInURL,
         role_type |-> csv_before.rows[k].RoleFit]]
    \o [k \in 1..Len(all_candidates) |->
        [linkedin_url |-> all_candidates[k].linkedin_url,
         role_type |-> all_candidates[k].role_type]]

\* C10: when exactly two records arrive with one key, one with an empty role
\* label and one labelled AE, in either order, the rewritten backup has
\* exactly one row of that key and its label is AE.
C10_NonEmptyLabelRetained ==
    Rewrote =>
        \A x, y \in 1..Len(Arrivals) :
            (/\ Key(Arrivals[x]) = Key(Arrivals[y])
             /\ {z \in 1..Len(Arrivals) : Key(Arrivals[z]) = Key(Arrivals[x])} = {x, y}
             /\ Arrivals[x].role_type = ""
             /\ Arrivals[y].role_type = "AE") =>
                /\ Cardinality(RowsOf(csv_file, Key(Arrivals[x]))) = 1
                /\ \A r \in RowsOf(csv_file, Key(Arrivals[x])) :
                      csv_file.rows[r].RoleFit = "AE"

\* The queries of the search calls made so far, in the order of the calls.
Searched == [k \in 1..Len(attempts) |-> attempts[k].query]

\* C11: a search call whose provider fails returns the empty list and does
\* not raise; the run goes on, every query of queries_to_run is searched
\* exactly once, in the order of the list, and the run ends.
C11_SearchFailureIsNoResult ==
    /\ [](pc # "search_raised")
    /\ [][(/\ Len(attempts') = Len(attempts) + 1
           /\ attempts'[Len(attempts')].failure = "provider") =>
              candidates' = <<>> /\ pc' = "process"]_vars
    /\ [](Searched = SubSeq(queries_to_run, 1, Len(attempts)))
    /\ [](LoopOver => Searched = queries_to_run)
    /\ <>LoopOver

\* The provider failed for the first query and the second query found a
\* candidate the run kept.
C11_Witness ==
    /\ pc = "done"
    /\ Len(attempts) = 2
    /\ attempts[1].failure = "provider"
    /\ attempts[2].failure = "none"
    /\ all_candidates # <<>>

\* C12: a search call after the first is issued only after one sleep since
\* the call before it: of BATCH_PAUSE seconds when the number of queries
\* searched so far is a multiple of BATCH_SIZE, of MIN_DELAY to MAX_DELAY
\* seconds otherwise; the first call is issued without a sleep, and there is
\* no second sleep before a call.
C12_OneDelayBetweenQueries ==
    /\ [](pc = "search" =>
            IF query_i = 1 THEN last_delay = 0
            ELSE IF (query_i - 1) % BATCH_SIZE = 0 THEN last_delay = BATCH_PAUSE
            ELSE last_delay \in MIN_DELAY..MAX_DELAY)
    /\ [][Len(attempts') = Len(attempts) + 1 =>
            /\ pc = "search"
            /\ last_delay' = 0]_vars
    /\ [][last_delay' # last_delay => (last_delay = 0 \/ last_delay' = 0)]_vars

\* The ninth query is about to be searched after the pause of a batch, the
\* eight before it having been searched.
C12_Witness ==
    /\ pc = "search"
    /\ query_i = BATCH_SIZE + 1
    /\ Len(attempts) = BATCH_SIZE
    /\ last_delay = BATCH_PAUSE

\* C13: the run dry_run starts makes no search call and writes neither to
\* the sheet nor to the backup.
C13_DryRunMakesNoCall ==
    (argv # <<>> /\ argv[1] = "--dry-run") =>
        /\ attempts = <<>>
        /\ stats.new = 0 /\ stats.updated = 0
        /\ pc = "done" => csv_file = csv_before

\* C14: row writes are idempotent by key.  In a second run over the search
\* results of a first run that had the sheet, with the sheet at hand again
\* and no sheet call failing in either, no row is appended, and every
\* candidate the first run reported 'new' or 'updated' is reported
\* 'updated'.
C14_SecondRunAppendsNoRow ==
    (runs # <<>> /\ runs[1].worksheet /\ worksheet /\ faults = 0) =>
        /\ Len(sheet.rows) = runs[1].rows
        /\ stats.new = 0
        /\ pc = "done" =>
              stats.updated = runs[1].stats.new + runs[1].stats.updated

RoleLabels == {"SDR", "AE", "SDR/AE"}

\* C15: every record the run handles or writes has a role label that is one
\* of SDR, AE, SDR/AE: the records a search returned, the records kept and
\* uploaded, the records loaded from the backup and merged with them, and
\* the rows of the rewritten backup.
C15_RoleLabelEnumerated ==
    /\ \A k \in 1..Len(candidates) : candidates[k].role_type \in RoleLabels
    /\ \A k \in 1..Len(all_candidates) :
          all_candidates[k].role_type \in RoleLabels
    /\ \A k \in 1..Len(merged) : merged[k].role_type \in RoleLabels
    /\ Rewrote =>
          \A r \in 1..Len(csv_file.rows) : csv_file.rows[r].RoleFit \in RoleLabels

\* The run is over, with or without an error of the final merge.
RunEnded == pc \in {"done", "merge_raised"}

\* The keys of the records the run kept.
KeptKeys == {Key(all_candidates[k]) : k \in 1..Len(all_candidates)}

\* C16: a run deletes nothing.  When it is over, every key the backup held
\* before has a row in the backup; and a step of the run never removes a row
\* of the sheet and changes no cell of an existing row other than its role
\* label and its date stamp.
C16_NeverDeleted ==
    /\ [](RunEnded =>
            \A r \in 1..Len(csv_before.rows) :
                RowsOf(csv_file, NormalizeUrl(csv_before.rows[r].LinkedInURL)) # {})
    /\ [][/\ Len(sheet'.rows) >= Len(sheet.rows)
          /\ sheet'.header = sheet.header
          /\ \A q \in 1..Len(sheet.rows) :
                /\ Len(sheet'.rows[q]) = Len(sheet.rows[q])
                /\ \A col \in 1..Len(sheet.rows[q]) :
                      col \notin {LabelColumn, DateColumn} =>
                          sheet'.rows[q][col] = sheet.rows[q][col]]_vars

\* A run that rewrote a backup holding a key none of its records has, and
\* that updated a row of the sheet and appended one.
C16_Witness ==
    /\ Rewrote
    /\ \E r \in 1..Len(csv_before.rows) :
          NormalizeUrl(csv_before.rows[r].LinkedInURL) \notin KeptKeys
    /\ stats.updated >= 1
    /\ stats.new >= 1

\* The cells of a row of the backup.
CsvCells(row) ==
    {row.FullName, row.LinkedInURL, row.Headline, <<row.YearsOfExperience>>,
     <<row.RoleFit>>, <<row.Notes>>, <<row.Email>>, <<row.Phone>>,
     <<row.DateAdded>>, <<row.Status>>, <<row.AIDraft>>}

\* C17: a row of the backup that lacks a field never makes the run raise:
\* the final merge ends without an error, and the rewritten backup has the
\* empty cell where the field was missing.
C17_MalformedRowNeverRaises ==
    /\ pc # "merge_raised"
    /\ Rewrote =>
          \A r \in 1..Len(csv_file.rows) :
              CsvCells(csv_file.rows[r]) \cap {NoneValue, <<NoneStr>>} = {}

\* A string that is '' or None.
Absent(s) == s \in {<<>>, NoneValue}

\* C18: parse_search_result returns a record for every URL, title and
\* snippet, each a string, '' or None: the record has the eight fields, its
\* name, headline and snippet are strings, the name is '' when the title is
\* absent and the URL has no slug, the headline is '' when title and snippet
\* are absent, and the role label is one of the three.
C18_ParseNeverFails ==
    "parse_search_result" \in done =>
        /\ Len(ret_candidate) = 1
        /\ LET c == ret_candidate[1]
           IN  /\ DOMAIN c = {"full_name", "linkedin_url", "headline", "email",
                               "phone", "role_type", "source_query", "snippet"}
               /\ NoneValue \notin {c.full_name, c.headline, c.snippet}
               /\ (Absent(arg_title) /\ url \in {NoneValue, EmptyUrl, <<>>}) =>
                      c.full_name = <<>>
               /\ (Absent(arg_title) /\ Absent(arg_snippet)) => c.headline = <<>>
               /\ c.role_type \in RoleLabels

\* parse_search_result has returned from a call in which the URL, the title
\* and the snippet are None.
C18_Witness ==
    /\ "parse_search_result" \in done
    /\ url = NoneValue
    /\ arg_title = NoneValue
    /\ arg_snippet = NoneValue

\* The candidate the loop of main is about to look at is met for the first
\* time in this run.
FirstSeen == Key(Head(candidates)) \notin seen_urls

\* The query that found the candidates at hand is one of the AE queries.
FoundByAEQuery ==
    \E k \in 1..Len(AE_GOOGLE_QUERIES) :
        AE_GOOGLE_QUERIES[k] = queries_to_run[query_i]

\* C19: a turn of the loop of main on a first-seen candidate appends it to
\* the records of the run exactly when it is not too senior, it is connected
\* to Utah and, unless an AE query found it, it is not an incumbent SDR; with
\* the sheet at hand and no sheet call failing the record is then counted
\* 'new' or 'updated', and a candidate not retained leaves the records and
\* the sheet as they were.
C19_RetainedIffPassesFilters ==
    [][(pc = "process" /\ candidates # <<>> /\ candidates' = Tail(candidates)
        /\ FirstSeen) =>
          LET c == Head(candidates)
              retained ==
                  /\ ~is_too_senior(c.headline)
                  /\ is_utah_connected(c.headline, c.snippet)
                  /\ ~FoundByAEQuery => ~is_existing_sdr(c.headline, c.snippet)
          IN  /\ retained => all_candidates' = Append(all_candidates, c)
              /\ ~retained => all_candidates' = all_candidates /\ sheet' = sheet
              /\ (retained /\ worksheet /\ last_fault' = "none") =>
                    stats'.new + stats'.updated = stats.new + stats.updated + 1
       ]_vars

\* An incumbent SDR that an AE query found was retained, and an incumbent
\* SDR that an SDR query found was not.
C19_Witness ==
    /\ stats.filtered_existing_sdr >= 1
    /\ \E k \in 1..Len(all_candidates) :
          /\ is_existing_sdr(all_candidates[k].headline, all_candidates[k].snippet)
          /\ query_type(all_candidates[k].source_query) = "AE"

\* C20: on a headline no explicit-years pattern matches, the first
\* graduation pattern, in the order of the list, whose leftmost match
\* captures a year y with 2015 <= y <= current year decides: the result is
\* the decimal of current year - y, "<1" when that is not positive.  When no
\* pattern captures a year of the window the graduation rule yields nothing
\* and the result is that of the rules after it.
C20_GradYearWindow ==
    ("estimate_years_of_experience" \in done
     /\ Rule1(LowerText(arg_headline)) = NoMatch) =>
        LET t == LowerText(arg_headline)
            K == {k \in 1..4 : /\ GradYear(k, t) # -1
                                /\ 2015 <= GradYear(k, t)
                                /\ GradYear(k, t) <= now_year}
        IN  IF K # {}
            THEN LET y == GradYear(Leftmost(K), t)
                 IN  ret_years = IF now_year - y <= 0 THEN "<1"
                                 ELSE ToString(now_year - y)
            ELSE ret_years = FirstRule(<<Rule3(t), Rule4(t, now_year), Rule5(t)>>)

\* "class of 2014 '22 class of 2026" was estimated in 2026: the first
\* pattern captures 2014, before the window, and the third one 2022.
C20_Witness ==
    /\ "estimate_years_of_experience" \in done
    /\ arg_headline = <<"class", "of", "2014", "'", "22", "class", "of", "2026">>
    /\ now_year = 2026
    /\ ret_years = "4"

\* The keywords of the title table, by the level its comments give them.
EntryKeyword(t) ==
    \/ Search(Phrases({<<"intern">>, <<"internship">>, <<"student">>}), t)
    \/ Search(Loose2("entry", "level", "entrylevel"), t)
    \/ RecentGrad(t)

JuniorKeyword(t) ==
    Search(Phrases({<<"sdr">>, <<"bdr">>, <<"junior">>, <<"associate">>}), t)

MidKeyword(t) ==
    \/ Search(Phrases({<<"account", "executive">>, <<"ae">>}), t)
    \/ Search(Loose2("mid", "market", "midmarket"), t)

SeniorKeyword(t) ==
    Search(Phrases({<<"senior", "account", "executive">>, <<"senior", "ae">>,
                    <<"senior", "sdr">>, <<"sales", "manager">>}), t)

SmbKeyword(t) ==
    Search(Phrases({<<"smb", "account", "executive">>,
                    <<"enterprise", "account", "executive">>}), t)

\* C21: when no explicit-years pattern and no graduation year decide, a
\* headline with a senior-role keyword yields "4+", one with "smb account
\* executive" or "enterprise account executive" yields "3-5", and, without
\* a keyword of another level, a junior keyword yields "1-2" and a
\* mid-level keyword "2-4".
C21_TitleBands ==
    ("estimate_years_of_experience" \in done
     /\ Rule1(LowerText(arg_headline)) = NoMatch
     /\ Rule2(LowerText(arg_headline), now_year) = NoMatch) =>
        LET t == LowerText(arg_headline)
        IN  /\ SeniorKeyword(t) => ret_years = "4+"
            /\ (SmbKeyword(t) /\ ~SeniorKeyword(t)) => ret_years = "3-5"
            /\ (JuniorKeyword(t) /\ ~EntryKeyword(t) /\ ~MidKeyword(t)
                   /\ ~SeniorKeyword(t)) => ret_years = "1-2"
            /\ (MidKeyword(t) /\ ~EntryKeyword(t) /\ ~JuniorKeyword(t)
                   /\ ~SeniorKeyword(t) /\ ~SmbKeyword(t)) => ret_years = "2-4"

\* The results the estimator is documented to give in the year current_year:
\* "", "<1", a count that is not negative, "N+" and "lo-hi".
Bands(current_year) ==
    {"", "<1"}
    \cup {ToString(n) : n \in 0..current_year}
    \cup {ToString(n) \o "+" : n \in 0..current_year}
    \cup {ToString(lo) \o "-" \o ToString(hi) : lo, hi \in 0..9}

\* C29: the estimator returns "", "<1", a non-negative count, "N+" or
\* "lo-hi", whatever the headline and the year; "since YYYY" never gives a
\* negative count.
C29_NoNegativeCount ==
    "estimate_years_of_experience" \in done => ret_years \in Bands(now_year)

\* C22: for a non-empty headline the label is AE exactly when the AE score
\* is greater than the SDR score, an AE score of 1 included; SDR/AE exactly
\* when the scores are equal and positive; and SDR otherwise.
C22_AEIffGreater ==
    ("determine_role_fit" \in done /\ arg_headline # <<>>) =>
        LET ae == ae_score(arg_headline)
            sdr == sdr_score(arg_headline)
        IN  /\ ret_role = "AE" <=> ae > sdr
            /\ ret_role = "SDR/AE" <=> (ae = sdr /\ ae > 0)
            /\ ret_role = "SDR" <=> (sdr > ae \/ (ae = 0 /\ sdr = 0))

\* A headline with an AE score of 1 and an SDR score of 0 was labelled AE.
C22_Witness ==
    /\ "determine_role_fit" \in done
    /\ arg_headline # <<>>
    /\ ae_score(arg_headline) = 1
    /\ sdr_score(arg_headline) = 0
    /\ ret_role = "AE"

\* C23: the row number the key map gets for a candidate that was appended is
\* the row of the sheet the candidate stands in (row 1 being the header),
\* whatever the sheet held, so that an update through the map reaches the
\* candidate's own row.
C23_NewRowNumberIsItsRow ==
    [][(/\ Uploads
        /\ last_fault' = "none"
        /\ Key(all_candidates'[Len(all_candidates')]) \notin DOMAIN existing_urls) =>
          LET c == all_candidates'[Len(all_candidates')]
          IN  /\ existing_urls'[Key(c)] = Len(sheet'.rows) + 1
              /\ sheet'.rows[existing_urls'[Key(c)] - 1][2] = c.linkedin_url
       ]_vars

\* C24: an upload reported 'skipped' because a sheet call failed leaves the
\* sheet and the key map as they were: no cell is changed and no row is
\* appended.
C24_SkippedChangesNothing ==
    [][(Uploads /\ last_fault' # "none" /\ stats'.skipped = stats.skipped + 1) =>
          /\ sheet' = sheet
          /\ existing_urls' = existing_urls]_vars

\* C25: in a run every key is evaluated at most once.  A turn of the loop of
\* main marks the key of its candidate seen whatever the filters say; a
\* candidate whose key is seen is neither retained nor uploaded nor counted;
\* so no two records of the run share a key, and a key rejected under one
\* query is never retained under a later one.
C25_EachKeyOnce ==
    /\ [](\A k, l \in 1..Len(all_candidates) :
             Key(all_candidates[k]) = Key(all_candidates[l]) => k = l)
    /\ [](KeptKeys \subseteq seen_urls)
    /\ [][(pc = "process" /\ candidates # <<>> /\ candidates' = Tail(candidates)) =>
            /\ seen_urls' = seen_urls \cup {Key(Head(candidates))}
            /\ ~FirstSeen =>
                  /\ all_candidates' = all_candidates
                  /\ sheet' = sheet
                  /\ existing_urls' = existing_urls
                  /\ stats' = stats]_vars

\* The SDR query found an incumbent SDR, who was rejected, and the AE query
\* found the same profile again: it was looked at and not retained.
C25_Witness ==
    /\ Len(attempts) = 2
    /\ attempts[1].hits = <<CalSdr>>
    /\ attempts[2].hits = <<CalSdr>>
    /\ query_type(attempts[1].query) = "SDR"
    /\ query_type(attempts[2].query) = "AE"
    /\ pc = "process"
    /\ candidates = <<>>
    /\ stats.filtered_existing_sdr = 1
    /\ all_candidates = <<>>

\* The row `new` of a rewritten backup holds what the row `old` of the
\* backup before held in the columns save_to_csv writes, a cell the old row
\* did not reach being empty.
KeepsRow(old, new) ==
    /\ new.FullName = CsvText(old.FullName)
    /\ new.LinkedInURL = old.LinkedInURL
    /\ new.Headline = CsvText(old.Headline)
    /\ new.Email = CsvStr(old.Email)
    /\ new.Phone = CsvStr(old.Phone)
    /\ old.RoleFit \notin {"", NoneStr} => new.RoleFit = old.RoleFit

\* The columns save_to_csv does not write are empty in the row.
BlankColumns(row) ==
    /\ row.YearsOfExperience = ""
    /\ row.Notes = ""
    /\ row.DateAdded = ""
    /\ row.Status = ""
    /\ row.AIDraft = ""

\* No earlier row of the file has the key of row r.
FirstOfKey(file, r) ==
    \A q \in 1..(r - 1) :
        NormalizeUrl(file.rows[q].LinkedInURL) # NormalizeUrl(file.rows[r].LinkedInURL)

\* C26 as stated: a rewrite of the backup keeps, of every row the backup
\* held, the name, the URL, the headline, the email, the phone and the
\* non-empty role label, and every row it writes has empty Years of
\* Experience, Notes, Date Added, Status and AI Draft.
C26_RewriteKeepsEveryRow ==
    Rewrote =>
        /\ \A r \in 1..Len(csv_before.rows) :
              \E q \in 1..Len(csv_file.rows) :
                  KeepsRow(csv_before.rows[r], csv_file.rows[q])
        /\ \A q \in 1..Len(csv_file.rows) : BlankColumns(csv_file.rows[q])

\* C26, amended: a rewrite of the backup keeps those columns of every row
\* that is the first of its key in the file (a later row of the same key is
\* dropped by the deduplication), and every row it writes has empty Years
\* of Experience, Notes, Date Added, Status and AI Draft.
C26_RewriteKeepsFirstRows ==
    Rewrote =>
        /\ \A r \in 1..Len(csv_before.rows) :
              FirstOfKey(csv_before, r) =>
                  \E q \in 1..Len(csv_file.rows) :
                      KeepsRow(csv_before.rows[r], csv_file.rows[q])
        /\ \A q \in 1..Len(csv_file.rows) : BlankColumns(csv_file.rows[q])

\* The backup held two rows of one key, the first with its years and its
\* date filled in, and the run rewrote it.
C26_Witness ==
    /\ Rewrote
    /\ Len(csv_before.rows) = 2
    /\ ~FirstOfKey(csv_before, 2)
    /\ csv_before.rows[1].YearsOfExperience = "3"
    /\ csv_before.rows[1].DateAdded = "old"
    /\ csv_before.rows[2].Headline # csv_before.rows[1].Headline

\* The band the estimator gives for the headline of data row q as read.
BandOfRow(q) ==
    estimate_years_of_experience(CellOf(all_data.rows[q], COL_HEADLINE), now_year)

\* C27 as stated: the experience pass changes a cell only in the column it
\* takes for the years, only when the cell was empty when the sheet was
\* read, and only to the non-empty band of the row's headline; with the
\* batch request and with the fallback alike.
C27_NeverOverwritesNonEmpty ==
    [][\A q \in 1..Len(sheet.rows) : \A col \in 1..Len(sheet.rows[q]) :
          sheet'.rows[q][col] # sheet.rows[q][col] =>
              /\ col = yoe_col
              /\ all_data.rows[q][col] = ""
              /\ sheet'.rows[q][col] = BandOfRow(q)
              /\ BandOfRow(q) # ""]_vars

\* C27, amended: the same with "held nothing but whitespace" for "was
\* empty".
C27_NeverOverwritesValue ==
    [][\A q \in 1..Len(sheet.rows) : \A col \in 1..Len(sheet.rows[q]) :
          sheet'.rows[q][col] # sheet.rows[q][col] =>
              /\ col = yoe_col
              /\ Strip(all_data.rows[q][col]) = ""
              /\ sheet'.rows[q][col] = BandOfRow(q)
              /\ BandOfRow(q) # ""]_vars

\* The batch request failed and the fallback ended: a cell that held a
\* blank has its band, and a row whose cell held a value is as it was.
C27_Witness ==
    /\ update_pc = "done"
    /\ update_i = Len(updates) + 1
    /\ updated_count >= 1
    /\ \E q \in 1..Len(sheet.rows) :
          /\ all_data.rows[q][yoe_col] = " "
          /\ sheet.rows[q][yoe_col] = BandOfRow(q)
          /\ BandOfRow(q) # ""
    /\ \E q \in 1..Len(sheet.rows) :
          /\ Strip(all_data.rows[q][yoe_col]) # ""
          /\ BandOfRow(q) # ""
          /\ sheet.rows[q] = all_data.rows[q]

\* The position of a column in the header row the code itself writes.
HeaderPosition(column_name) ==
    get_column_index([header |-> HEADERS, rows |-> <<>>], column_name)

\* A sheet whose header names neither the role nor the date, with one row,
\* and the row after an upload that updates it.
BareSheet ==
    [header |-> <<"Full Name", "LinkedIn URL">>,
     rows |-> <<SheetRow(<<"jane">>, <<"a">>, <<"intern">>, "", "old")>>]

BareSheetUpdated ==
    upload_candidate_realtime(TRUE, BareSheet,
        parse_search_result(<<"a">>, <<"jane", "-", "AE", "utah">>, <<>>, <<>>),
        (<<"a">> :> 2), None, "none").sheet.rows[1]

\* C28: a fallback column is the position of its column in the header row
\* the code writes: the upload on a sheet without the headers writes the
\* role label and the date where HEADERS has Role Fit and Date Added, and
\* the experience pass on a sheet without a years header takes the column
\* where HEADERS has Years of Experience.
C28_FallbacksMatchHeader ==
    /\ BareSheetUpdated[HeaderPosition("Role Fit")] = "AE"
    /\ BareSheetUpdated[HeaderPosition("Date Added")] = Today
    /\ (/\ update_pc # "read"
        /\ \A k \in 1..Len(sheet.header) : ~NamesYearsOfExperience(sheet.header[k]))
           => yoe_col = HeaderPosition("Years of Experience")

\* total_batches of line 1170.
total_batches(base) == (Len(base) + BATCH_SIZE - 1) \div BATCH_SIZE

\* The queries batch number b selects.
BatchOf(base, b) == SelectQueries(base, [is_none |-> FALSE, value |-> b])

\* The batches 1..n one after the other.
RECURSIVE BatchesUpTo(_, _)
BatchesUpTo(base, n) ==
    IF n = 0 THEN <<>> ELSE BatchesUpTo(base, n - 1) \o BatchOf(base, n)

\* s is a run of consecutive elements of base.
IsSliceOf(s, base) ==
    \E first \in 1..(Len(base) + 1) :
        /\ first + Len(s) - 1 <= Len(base)
        /\ s = SubSeq(base, first, first + Len(s) - 1)

\* C30: the batches 1..T, T = ceil(len/BATCH_SIZE), are consecutive slices
\* of the query list, each starting where the one before ends, and one
\* after the other they give the list; with any batch number the queries
\* of the run are consecutive queries of the list, none twice, and a run
\* that ends has searched exactly those.
C30_BatchesPartition ==
    /\ BatchesUpTo(base_queries, total_batches(base_queries)) = base_queries
    /\ \A b \in 1..total_batches(base_queries) :
          /\ BatchOf(base_queries, b) # <<>>
          /\ BatchOf(base_queries, b)
               = SubSeq(base_queries, Len(BatchesUpTo(base_queries, b - 1)) + 1,
                        Len(BatchesUpTo(base_queries, b)))
    /\ IsSliceOf(queries_to_run, base_queries)
    /\ \A k, l \in 1..Len(queries_to_run) :
          queries_to_run[k] = queries_to_run[l] => k = l
    /\ \A b \in IntArgs :
          (b < 1 \/ b > total_batches(base_queries)) =>
              IsSliceOf(BatchOf(base_queries, b), base_queries)
    /\ pc = "done" => Searched = queries_to_run

\* The second of two batches was run: the queries after the first
\* BATCH_SIZE, and only they, were searched.
C30_Witness ==
    /\ pc = "done"
    /\ argv = <<"2">>
    /\ total_batches(base_queries) = 2
    /\ Searched = SubSeq(base_queries, BATCH_SIZE + 1, Len(base_queries))
    /\ Searched # <<>>

====
